---------------------------- MODULE Spec2Model ----------------------------
(***************************************************************************)
(* A model of github.com/cespare/assetserver: an http.Handler that serves  *)
(* files of an fs.FS with an ETag derived from a hash of the content, that *)
(* understands "tagged" file names (name.TAG.ext) and that keeps a         *)
(* per-path cache of {mtime, size, tag, contentType}.                      *)
(*                                                                         *)
(* Strings are TLA+ strings; Go's s[a:b] is Slice(s, a, b).  A digest is a *)
(* tuple of bytes.  The file tree, the SHA-256 function, package path, the *)
(* HTTP client and http.ServeContent are the collaborators of the package; *)
(* they are modelled by what the Go implementations do.                    *)
(***************************************************************************)
EXTENDS Integers, Sequences, FiniteSets, TLC

(***************************************************************************)
(* Strings (package strings)                                               *)
(***************************************************************************)

\* Go's s[a:b] (0-based, b exclusive).
Slice(s, a, b) == SubSeq(s, a + 1, b)

\* Go's s[a:].
SliceFrom(s, a) == SubSeq(s, a + 1, Len(s))

\* Go's s[i] as a one-character string.
At(s, i) == SubSeq(s, i + 1, i + 1)

\* The index of the first c in s at or after i, or -1.
RECURSIVE IndexFrom(_, _, _)
IndexFrom(s, c, i) ==
  IF i >= Len(s) THEN -1
  ELSE IF At(s, i) = c THEN i
  ELSE IndexFrom(s, c, i + 1)

\* strings.IndexByte(s, c): the index of the first c in s, or -1.
IndexByte(s, c) == IndexFrom(s, c, 0)

\* The index of the last c in s at or before i, or -1.
RECURSIVE LastIndexFrom(_, _, _)
LastIndexFrom(s, c, i) ==
  IF i < 0 THEN -1
  ELSE IF At(s, i) = c THEN i
  ELSE LastIndexFrom(s, c, i - 1)

\* strings.LastIndexByte(s, c): the index of the last c in s, or -1.
LastIndexByte(s, c) == LastIndexFrom(s, c, Len(s) - 1)

HasPrefix(s, pre) == Len(s) >= Len(pre) /\ Slice(s, 0, Len(pre)) = pre

HasSuffix(s, suf) == Len(s) >= Len(suf) /\ SliceFrom(s, Len(s) - Len(suf)) = suf

\* strings.Cut(s, "."): <<before, after, found>>.
Cut(s, sep) ==
  LET i == IndexByte(s, sep)
  IN  IF i >= 0 THEN <<Slice(s, 0, i), SliceFrom(s, i + 1), TRUE>>
      ELSE <<s, "", FALSE>>

\* strings.CutPrefix(s, "/"): <<after, found>>.
CutPrefix(s, pre) ==
  IF HasPrefix(s, pre) THEN <<SliceFrom(s, Len(pre)), TRUE>> ELSE <<s, FALSE>>

(***************************************************************************)
(* Paths (package path)                                                    *)
(***************************************************************************)

\* The elements of s between slashes, empty ones included.
RECURSIVE SplitSlash(_)
SplitSlash(s) ==
  LET i == IndexByte(s, "/")
  IN  IF i < 0 THEN <<s>> ELSE <<Slice(s, 0, i)>> \o SplitSlash(SliceFrom(s, i + 1))

RECURSIVE JoinSlash(_)
JoinSlash(elems) ==
  IF Len(elems) = 0 THEN ""
  ELSE IF Len(elems) = 1 THEN elems[1]
  ELSE elems[1] \o "/" \o JoinSlash(Tail(elems))

\* One pass of path.Clean over the elements: out is the stack of kept ones.
RECURSIVE CleanElems(_, _, _)
CleanElems(elems, out, rooted) ==
  IF Len(elems) = 0 THEN out
  ELSE LET e == Head(elems)
           rest == Tail(elems)
       IN  IF e = "" \/ e = "." THEN CleanElems(rest, out, rooted)
           ELSE IF e = ".."
                THEN IF Len(out) > 0 /\ out[Len(out)] # ".."
                     THEN CleanElems(rest, SubSeq(out, 1, Len(out) - 1), rooted)
                     ELSE IF rooted THEN CleanElems(rest, out, rooted)
                     ELSE CleanElems(rest, Append(out, ".."), rooted)
                ELSE CleanElems(rest, Append(out, e), rooted)

\* path.Clean.
Clean(p) ==
  IF p = "" THEN "."
  ELSE LET rooted == At(p, 0) = "/"
           body == JoinSlash(CleanElems(SplitSlash(p), <<>>, rooted))
       IN  IF rooted THEN "/" \o body
           ELSE IF body = "" THEN "." ELSE body

\* path.Split: <<dir, file>>, dir keeps its final slash.
Split(p) ==
  LET i == LastIndexByte(p, "/")
  IN  <<Slice(p, 0, i + 1), SliceFrom(p, i + 1)>>

\* path.Join(dir, base).
Join(dir, base) ==
  IF dir = "" /\ base = "" THEN ""
  ELSE IF dir = "" THEN Clean(base)
  ELSE IF base = "" THEN Clean(dir)
  ELSE Clean(dir \o "/" \o base)

RECURSIVE TrimSlashes(_)
TrimSlashes(p) ==
  IF Len(p) > 0 /\ At(p, Len(p) - 1) = "/" THEN TrimSlashes(Slice(p, 0, Len(p) - 1))
  ELSE p

\* path.Base.
Base(p) ==
  IF p = "" THEN "."
  ELSE LET t == TrimSlashes(p)
           b == SliceFrom(t, LastIndexByte(t, "/") + 1)
       IN  IF b = "" THEN "/" ELSE b

(***************************************************************************)
(* Tags                                                                    *)
(***************************************************************************)

tagLen == 10

alphabet62 == "0123456789abcdefghijklmnopqrstuvwxyzABCDEFGHIJKLMNOPQRSTUVWXYZ"

\* The bytes b with inAlphabet[b] set by init().
alphabetBytes == {At(alphabet62, i) : i \in 0..(Len(alphabet62) - 1)}

inAlphabet(c) == c \in alphabetBytes

\* An isTag that does not look at the length.
isTagOfAnyLength(s) == \A i \in 0..(Len(s) - 1) : inAlphabet(At(s, i))

isTag(s) ==
  /\ Len(s) = tagLen
  /\ \A i \in 0..(Len(s) - 1) : inAlphabet(At(s, i))

\* big.Int DivMod by 62 of a big-endian base-256 numeral: <<quotient, remainder>>.
RECURSIVE DivMod62(_, _, _)
DivMod62(digits, quo, rem) ==
  IF Len(digits) = 0 THEN <<quo, rem>>
  ELSE LET cur == rem * 256 + Head(digits)
       IN  DivMod62(Tail(digits), Append(quo, cur \div 62), cur % 62)

\* A loop that ends when nothing is left to divide: leading zero digits dropped.
RECURSIVE makeTagLoopTrimmed(_, _, _)
makeTagLoopTrimmed(n, i, out) ==
  IF i = tagLen \/ \A k \in 1..Len(n) : n[k] = 0 THEN out
  ELSE LET qr == DivMod62(n, <<>>, 0)
       IN  makeTagLoopTrimmed(qr[1], i + 1, out \o At(alphabet62, qr[2]))

RECURSIVE makeTagLoop(_, _, _)
makeTagLoop(n, i, out) ==
  IF i = tagLen THEN out
  ELSE LET qr == DivMod62(n, <<>>, 0)
       IN  makeTagLoop(qr[1], i + 1, out \o At(alphabet62, qr[2]))

\* makeTag(b): 10 base-62 digits of the first 8 bytes of b, lowest digit first.
makeTag(b) == makeTagLoop(SubSeq(b, 1, 8), 0, "")

\* removeTag that cuts the whole path at its first dot, directory included.
removeTagOfPath(s) ==
  LET c1 == Cut(s, ".")
      c2 == Cut(c1[2], ".")
  IN  IF ~c1[3] THEN <<"", s>>
      ELSE IF isTag(c1[2]) THEN <<c1[2], Clean(c1[1])>>
      ELSE IF ~c2[3] THEN <<"", s>>
      ELSE IF isTag(c2[1]) THEN <<c2[1], Clean(c1[1] \o "." \o c2[2])>>
      ELSE <<"", s>>

\* removeTag with the tag looked for before the last dot, as when Tag placed it
\* before the extension.
removeTagLastDot(s) ==
  LET dir == Split(s)[1]
      base == Split(s)[2]
      j == LastIndexByte(base, ".")
      i == LastIndexByte(Slice(base, 0, j), ".")
  IN  IF j < 0 THEN <<"", s>>
      ELSE IF isTag(SliceFrom(base, j + 1)) THEN <<SliceFrom(base, j + 1), Join(dir, Slice(base, 0, j))>>
      ELSE IF i < 0 THEN <<"", s>>
      ELSE IF isTag(Slice(base, i + 1, j))
      THEN <<Slice(base, i + 1, j), Join(dir, Slice(base, 0, i) \o SliceFrom(base, j))>>
      ELSE <<"", s>>

removeTag(s) ==
  LET dir == Split(s)[1]
      base == Split(s)[2]
      c1 == Cut(base, ".")
      head == c1[1]
      tail == c1[2]
      c2 == Cut(tail, ".")
  IN  IF ~c1[3] THEN <<"", s>>
      ELSE IF isTag(tail) THEN <<tail, Join(dir, head)>>
      ELSE IF ~c2[3] THEN <<"", s>>
      ELSE IF isTag(c2[1]) THEN <<c2[1], Join(dir, head \o "." \o c2[2])>>
      ELSE <<"", s>>

\* A Tag that forgets the leading slash.
slashDropped(hadSlash, tagged) == tagged

\* The end of Tag: the leading slash that was cut is put back.
withSlash(hadSlash, tagged) == IF hadSlash THEN "/" \o tagged ELSE tagged

\* A Tag that appends the tag to the name.
insertTagLast(name, tag) == name \o "." \o tag

\* The name Tag builds from the (slash-trimmed) name and the tag of its info.
insertTag(name, tag) ==
  LET dir == Split(name)[1]
      base == Split(name)[2]
      c == Cut(base, ".")
  IN  IF c[3] THEN Join(dir, c[1] \o "." \o tag \o "." \o c[2])
      ELSE Join(dir, base \o "." \o tag)

(***************************************************************************)
(* Collaborators: SHA-256, package mime, the file tree                     *)
(***************************************************************************)

\* The writer's last sequence number (TestChangingFiles writes 1..10).
MaxSeq == 2

Clients == {"c1", "c2"}

\* The text writeFile(letter, seq) writes: fmt.Sprintf("%c %d\n", letter, seq).
writeFileText(seq) == "a " \o At("0123456789", seq) \o "\n"

\* The size of the buffer readInfo sniffs the content type from.
sniffLen == 512

\* Contents around the size of the sniff buffer, written out: a document of 600
\* bytes (584 times x after its first line), a text of exactly 512 (y), a
\* document that begins at byte 510 of 526 after blanks, and a script of 600
\* bytes (z).
LargeText == "<!doctype html>\nxxxxxxxxxxxxxxxxxxxxxxxxxxxxxxxxxxxxxxxxxxxxxxxxxxxxxxxxxxxxxxxxxxxxxxxxxxxxxxxxxxxxxxxxxxxxxxxxxxxxxxxxxxxxxxxxxxxxxxxxxxxxxxxxxxxxxxxxxxxxxxxxxxxxxxxxxxxxxxxxxxxxxxxxxxxxxxxxxxxxxxxxxxxxxxxxxxxxxxxxxxxxxxxxxxxxxxxxxxxxxxxxxxxxxxxxxxxxxxxxxxxxxxxxxxxxxxxxxxxxxxxxxxxxxxxxxxxxxxxxxxxxxxxxxxxxxxxxxxxxxxxxxxxxxxxxxxxxxxxxxxxxxxxxxxxxxxxxxxxxxxxxxxxxxxxxxxxxxxxxxxxxxxxxxxxxxxxxxxxxxxxxxxxxxxxxxxxxxxxxxxxxxxxxxxxxxxxxxxxxxxxxxxxxxxxxxxxxxxxxxxxxxxxxxxxxxxxxxxxxxxxxxxxxxxxxxxxxxxxxxxxxxxxxxxxxxxxxxxxxxxxxxxxxxxxxxxxxxxxxxxxxxxxxxxxxxxxxxxxxxxxxxxxxxxxxxxxxxxxxxxxxxxxxxxxxxxxxxxxxxxxx"
ExactText == "yyyyyyyyyyyyyyyyyyyyyyyyyyyyyyyyyyyyyyyyyyyyyyyyyyyyyyyyyyyyyyyyyyyyyyyyyyyyyyyyyyyyyyyyyyyyyyyyyyyyyyyyyyyyyyyyyyyyyyyyyyyyyyyyyyyyyyyyyyyyyyyyyyyyyyyyyyyyyyyyyyyyyyyyyyyyyyyyyyyyyyyyyyyyyyyyyyyyyyyyyyyyyyyyyyyyyyyyyyyyyyyyyyyyyyyyyyyyyyyyyyyyyyyyyyyyyyyyyyyyyyyyyyyyyyyyyyyyyyyyyyyyyyyyyyyyyyyyyyyyyyyyyyyyyyyyyyyyyyyyyyyyyyyyyyyyyyyyyyyyyyyyyyyyyyyyyyyyyyyyyyyyyyyyyyyyyyyyyyyyyyyyyyyyyyyyyyyyyyyyyyyyyyyyyyyyyyyyyyyyyyyyyyyyyyyyyyyyyyyyyyyyyyyyyyyyyyyyyyyyyyyyyyyyyyyyyyyyyyyyyyyyyyyyyyyyyyyyyyyyyyyyyyyyyyyy"
PaddedText == "                                                                                                                                                                                                                                                                                                                                                                                                                                                                                                                              <!doctype html>\n"
LargeScript == "zzzzzzzzzzzzzzzzzzzzzzzzzzzzzzzzzzzzzzzzzzzzzzzzzzzzzzzzzzzzzzzzzzzzzzzzzzzzzzzzzzzzzzzzzzzzzzzzzzzzzzzzzzzzzzzzzzzzzzzzzzzzzzzzzzzzzzzzzzzzzzzzzzzzzzzzzzzzzzzzzzzzzzzzzzzzzzzzzzzzzzzzzzzzzzzzzzzzzzzzzzzzzzzzzzzzzzzzzzzzzzzzzzzzzzzzzzzzzzzzzzzzzzzzzzzzzzzzzzzzzzzzzzzzzzzzzzzzzzzzzzzzzzzzzzzzzzzzzzzzzzzzzzzzzzzzzzzzzzzzzzzzzzzzzzzzzzzzzzzzzzzzzzzzzzzzzzzzzzzzzzzzzzzzzzzzzzzzzzzzzzzzzzzzzzzzzzzzzzzzzzzzzzzzzzzzzzzzzzzzzzzzzzzzzzzzzzzzzzzzzzzzzzzzzzzzzzzzzzzzzzzzzzzzzzzzzzzzzzzzzzzzzzzzzzzzzzzzzzzzzzzzzzzzzzzzzzzzzzzzzzzzzzzzzzzzzzzzzzzzzzzzzzzzzzzzzzzzzzzzzzzzzzzzzzzzzzzzzzzzzzzzzzzzzzzzzzzzzzzz"

\* The content of each file of the tree, per version.
Content(name, seq) ==
  IF name = "a.txt" THEN writeFileText(seq)
  ELSE IF name = "a.js" THEN "ajs\n"
  ELSE IF name = "b.min.js" THEN "b\n"
  ELSE IF name = "d/style.css" THEN "style\n"
  ELSE IF name = "d/sub/noext" THEN "<!doctype html>\n"
  ELSE IF name = "e.js" THEN "ejs\n"
  ELSE IF name = "style.css" THEN "reset\n"
  ELSE IF name = "copy.css" THEN "style\n"
  ELSE IF name = "d/f" THEN LargeText
  ELSE IF name = "d/f512" THEN ExactText
  ELSE IF name = "d/padded" THEN PaddedText
  ELSE IF name = "d/big.js" THEN LargeScript
  ELSE ""

\* sha256.Sum256: the leading bytes of the digest of each content of the model.
Sum256(text) ==
  CASE text = "a 0\n" -> <<50, 165, 45, 20, 39, 135, 178, 231, 80, 176>>
    [] text = "a 1\n" -> <<106, 3, 131, 10, 24, 17, 164, 160, 244, 61>>
    [] text = "a 2\n" -> <<115, 127, 96, 247, 104, 224, 164, 156, 225, 36>>
    [] text = "a 3\n" -> <<170, 100, 84, 70, 91, 253, 129, 241, 231, 141>>
    [] text = "a 4\n" -> <<205, 72, 55, 228, 238, 98, 223, 70, 90, 87>>
    [] text = "a 5\n" -> <<139, 236, 69, 92, 106, 217, 53, 139, 100, 162>>
    [] text = "style\n" -> <<249, 107, 252, 221, 11, 195, 97, 52, 39, 214>>
    [] text = "reset\n" -> <<86, 12, 251, 22, 168, 126, 14, 147, 130, 8>>
    [] text = "ajs\n" -> <<70, 6, 45, 215, 200, 226, 77, 92, 21, 28>>
    [] text = "b\n" -> <<2, 99, 130, 153, 137, 182, 253, 149, 79, 114>>
    [] text = "ejs\n" -> <<243, 58, 41, 194, 239, 56, 203, 55, 61, 2>>
    [] text = "<!doctype html>\n" -> <<51, 95, 202, 133, 116, 240, 96, 238, 162, 78>>
    [] text = LargeText -> <<178, 217, 41, 30, 44, 162, 117, 22, 147, 149>>
    [] text = ExactText -> <<119, 190, 52, 2, 161, 87, 114, 240, 247, 43>>
    [] text = PaddedText -> <<0, 144, 64, 50, 44, 0, 20, 126, 208, 222>>
    [] text = LargeScript -> <<49, 107, 173, 97, 207, 6, 15, 64, 174, 18>>
    [] OTHER -> <<227, 176, 196, 66, 152, 252, 28, 20, 154, 251>>

\* makeTag of the digest of every content of the model, computed once.
TagRepertoire ==
  [t \in {writeFileText(q) : q \in 0..5}
          \cup {"ajs\n", "b\n", "style\n", "reset\n", "ejs\n", "<!doctype html>\n",
                LargeText, ExactText, PaddedText, LargeScript} |->
     makeTag(Sum256(t))]

\* hashTag of the tests: the tag of a content.
hashTag(text) ==
  IF text \in DOMAIN TagRepertoire THEN TagRepertoire[text] ELSE makeTag(Sum256(text))

\* path.Ext: the suffix of the last element from its last dot on.
Ext(name) ==
  LET base == Split(name)[2]
      i == LastIndexByte(base, ".")
  IN  IF i < 0 THEN "" ELSE SliceFrom(base, i)

\* mime.TypeByExtension.
TypeByExtension(ext) ==
  IF ext = ".js" THEN "text/javascript; charset=utf-8"
  ELSE IF ext = ".css" THEN "text/css; charset=utf-8"
  ELSE IF ext = ".txt" THEN "text/plain; charset=utf-8"
  ELSE ""

\* The index of the first byte of data at or after i that is not white space.
SkipWS(data, i) ==
  LET rest == {j \in i..(Len(data) - 1) : At(data, j) \notin {" ", "\t", "\n", "\r"}}
  IN  IF rest = {} THEN Len(data) ELSE CHOOSE j \in rest : \A k \in rest : j <= k

\* http.DetectContentType: it looks at no more than the first 512 bytes, and
\* past leading white space.
DetectContentType(data) ==
  LET head == IF Len(data) > sniffLen THEN Slice(data, 0, sniffLen) ELSE data
  IN  IF HasPrefix(SliceFrom(head, SkipWS(head, 0)), "<!doctype html")
      THEN "text/html; charset=utf-8"
      ELSE "text/plain; charset=utf-8"

ErrNotExist == "fs.ErrNotExist"
ErrPermission == "fs.ErrPermission"
ErrIO == "EIO"
ErrNotDir == "ENOTDIR"
errNoInfo == "errNoInfo"
NoErr == ""

\* Files whose operations may fail with an error other than not-exist.
Faulty == {"e.js", "a.txt"}

Absent == [kind |-> "absent", seq |-> 0, mtime |-> 0]

VARIABLES
  sum,       \* a digest handed to makeTag on its own (h.Sum(nil) of readInfo)
  noCache,   \* Server.noCache
  world,     \* the deployment (see WorldOf): who calls, with which requests
  files,     \* the files on disk: name -> kind, version, mtime
  cache,     \* per Server, Server.cache: name -> holder
  holders,   \* the atomic.Pointer[fileInfo] cells: holder -> *fileInfo
  mu,        \* per Server, Server.mu
  pr,        \* per client: the call in progress and its locals
  resp,      \* per client: the outcome of its last finished call
  lastSeq    \* per client: the sequence number it read last (the test's lastSeq)

vars == <<sum, noCache, world, files, cache, holders, mu, pr, resp, lastSeq>>

FileAt(name) == IF name \in DOMAIN files THEN files[name] ELSE Absent

\* The Server instances: s1 = New(os.DirFS(assets)), and in the deployment with
\* two instances s2 = New(os.DirFS(assets/d)).
Servers == {"s1", "s2"}

\* Server.fsys: the directory of the tree, as a prefix of the names on disk.
fsys(s) == IF s = "s2" THEN "d/" ELSE ""

\* The name on disk of a name given to the fs.FS of a Server.
Under(s, name) == IF fsys(s) = "" THEN name ELSE fsys(s) \o name

\* Servers that were all given one and the same map.
cacheOfFirst(s) == "s1"

\* New, NewNoCache: cache: make(map[string]*atomic.Pointer[fileInfo]), a map of
\* the Server's own.
cacheOf(s) == s

NilInfo == [nil |-> TRUE, mtime |-> 0, size |-> 0, tag |-> "", contentType |-> ""]

NoFile ==
  [valid |-> FALSE, name |-> "", isDir |-> FALSE, seq |-> 0, size |-> 0,
   mtime |-> 0, pos |-> 0]

NoStat == [size |-> -1, mtime |-> -1, isDir |-> FALSE]

NoHolder == <<"", "">>

\* A call of the handler: the request, and in wct the Content-Type its caller
\* has set on the ResponseWriter before the call ("": none).
NoReq ==
  [method |-> "", url |-> "", prefix |-> "", query |-> "", inm |-> "", rng |-> "",
   wct |-> ""]

Unset == "<unset>"
NilEntry == "<nil>"

NoHdr ==
  [Allow |-> Unset, CacheControl |-> Unset, ETag |-> Unset, Location |-> Unset,
   ContentType |-> Unset]

Idle ==
  [pc |-> "idle", srv |-> "s1", req |-> NoReq, urlPath |-> "", pth |-> "", tag |-> "",
   name |-> "", hadSlash |-> FALSE, ret |-> "", f |-> NoFile, fi |-> NoStat,
   p |-> NoHolder, ok |-> FALSE, info |-> NilInfo, via |-> "", fsOps |-> 0,
   opened |-> 0, hashed |-> 0, closed |-> 0, created |-> FALSE, stored |-> FALSE,
   follow |-> FALSE, since |-> -1]

NoResp ==
  [kind |-> "", srv |-> "s1", req |-> NoReq, pth |-> "", name |-> "", tag |-> "", status |-> 0,
   hdr |-> NoHdr, msg |-> "", content |-> "", body |-> "", result |-> "",
   err |-> NoErr, info |-> NilInfo, via |-> "", fsOps |-> 0, opened |-> 0, hashed |-> 0,
   closed |-> 0, created |-> FALSE, stored |-> FALSE, follow |-> FALSE,
   since |-> -1, fileSeq |-> -1, ver |-> -1]

\* os.DirFS, the file tree of the tests: a name below a regular file is not a
\* missing name; opening it fails with ENOTDIR, which is not fs.ErrNotExist.
NotDir(name) ==
  \E i \in 1..Len(name) :
    At(name, i - 1) = "/" /\ FileAt(Slice(name, 0, i - 1)).kind = "file"

\* The error of fsys.Open(name) and fs.Stat(fsys, name) on a name that is not there.
MissingErr(name) == IF NotDir(name) THEN ErrNotDir ELSE ErrNotExist

\* The size and mtime fs.FileInfo reports for a version of a file.
SizeOf(name, seq) == Len(Content(name, seq))

\* A file tree that hands out the first version again from the second
\* replacement on.
OpenHandleRecycled(name) ==
  LET st == FileAt(name)
      seq == IF st.seq >= 2 THEN 0 ELSE st.seq
  IN  [valid |-> TRUE, name |-> name, isDir |-> st.kind = "dir", seq |-> seq,
       size |-> IF st.kind = "dir" THEN 0 ELSE SizeOf(name, seq),
       mtime |-> st.mtime, pos |-> 0]

\* fsys.Open(name) on an existing name: the handle of the current version.
OpenHandle(name) ==
  LET st == FileAt(name)
  IN  [valid |-> TRUE, name |-> name, isDir |-> st.kind = "dir", seq |-> st.seq,
       size |-> IF st.kind = "dir" THEN 0 ELSE SizeOf(name, st.seq),
       mtime |-> st.mtime, pos |-> 0]

\* File.Stat() of an open handle.
HandleStat(f) == [size |-> f.size, mtime |-> f.mtime, isDir |-> f.isDir]

\* fs.Stat(fsys, name) of an existing name.
PathStat(name) == HandleStat(OpenHandle(name))

\* A test that trusts a cached info of the same size, whatever its mtime.
InfoMatchesSizeOnly(fi, info) == ~info.nil /\ fi.size = info.size

\* The test of tryCachedInfo and openWithInfo: the cached info is current.
InfoMatches(fi, info) ==
  ~info.nil /\ fi.size = info.size /\ fi.mtime = info.mtime

\* A readInfo that hashes the modification time along with the content.
readInfoWithMtime(f) ==
  LET text == Content(f.name, f.seq)
      byExt == TypeByExtension(Ext(f.name))
  IN  [nil |-> FALSE, mtime |-> f.mtime, size |-> f.size,
       tag |-> makeTag(<<f.mtime % 256>> \o SubSeq(Sum256(text), 1, 7)),
       contentType |-> IF byExt # "" THEN byExt ELSE DetectContentType(text)]

\* io.CopyN(dst, f, n) on a handle at offset 0: the bytes that reach dst, fewer
\* than n when the file ends before (io.EOF).
CopyN(text, n) == Slice(text, 0, IF Len(text) < n THEN Len(text) ELSE n)

\* A readInfo that, without a type by extension, hashes what it has sniffed and
\* no more.
readInfoOfSniffBuf(f) ==
  LET text == Content(f.name, f.seq)
      byExt == TypeByExtension(Ext(f.name))
      sniffBuf == CopyN(text, sniffLen)
  IN  [nil |-> FALSE, mtime |-> f.mtime, size |-> f.size,
       tag |-> makeTag(Sum256(IF byExt # "" THEN text ELSE sniffBuf)),
       contentType |-> IF byExt # "" THEN byExt ELSE DetectContentType(sniffBuf)]

\* readInfo on a handle whose reads succeed. With a type by extension, io.Copy
\* hashes the file; without, io.CopyN hashes the first 512 bytes and keeps them
\* for sniffing, and if the file has not ended there io.Copy hashes the rest.
readInfo(f) ==
  LET text == Content(f.name, f.seq)
      byExt == TypeByExtension(Ext(f.name))
      sniffBuf == CopyN(text, sniffLen)
      rest == IF Len(sniffBuf) = sniffLen THEN SliceFrom(text, sniffLen) ELSE ""
      hashed == IF byExt # "" THEN text ELSE sniffBuf \o rest
  IN  [nil |-> FALSE, mtime |-> f.mtime, size |-> f.size,
       tag |-> makeTag(Sum256(hashed)),
       contentType |-> IF byExt # "" THEN byExt ELSE DetectContentType(sniffBuf)]

(***************************************************************************)
(* Deployments                                                             *)
(***************************************************************************)

\* An entity tag as the ETag and If-None-Match headers carry it.
Quoted(t) == "\"" \o t \o "\""

Get(url) == [NoReq EXCEPT !.method = "GET", !.url = url]

Head_(url) == [NoReq EXCEPT !.method = "HEAD", !.url = url]

Post(url) == [NoReq EXCEPT !.method = "POST", !.url = url]

\* The tag of version seq of a.txt.
TagOfSeq(seq) == hashTag(writeFileText(seq))

StyleTag == hashTag("style\n")

\* A well-formed tag that is the tag of no file of the tree (servehttp.txt).
ForgedTag == "sI22qapGJ1"

\* The tag of the file a.js of testdata/assets.
AjsTag == hashTag("ajs\n")

\* TestChangingFiles: clients that fetch and tag a.txt while the writer runs.
\* clients: who calls; reqs, tagNames: the requests and Tag arguments they use;
\* follow: whether they request the names Tag returned; writes: how many times
\* the writer replaces a.txt (with two clients, once fewer than with one); churn: whether it is also removed and replaced by a directory; faults: whether file operations may fail; modes: New / NewNoCache.
ConcWorld ==
  [name |-> "conc", clients |-> Clients, server |-> [c \in Clients |-> "s1"], writes |-> MaxSeq - 1, churn |-> FALSE, faults |-> FALSE,
   follow |-> FALSE, modes |-> {FALSE},
   reqs |-> {Get("/a.txt")},
   tagNames |-> {"a.txt"}]

\* One client that requests a.txt, with and without tags, while the writer runs,
\* and that follows the names Tag returns.
SeqWorld ==
  [name |-> "seq", clients |-> {"c1"}, server |-> [c \in Clients |-> "s1"], writes |-> MaxSeq, churn |-> FALSE, faults |-> FALSE,
   follow |-> TRUE, modes |-> BOOLEAN,
   reqs |->
     {Get(u) : u \in {"/a.txt", "/a.txt/",
                      "/a." \o TagOfSeq(0) \o ".txt", "/a." \o TagOfSeq(0) \o ".txt/",
                      "/a." \o TagOfSeq(1) \o ".txt",
                      "/a." \o ForgedTag \o ".txt"}}
     \cup {Head_("/a.txt"), Post("/a.txt"),
           [Get("/a.txt") EXCEPT !.inm = Quoted(TagOfSeq(0))]},
   tagNames |-> {"a.txt", "/a.txt"}]

\* One client with the requests of servehttp.txt and TestStripPrefix, and some
\* more, for the files that stay as they are, the directories and the names that
\* are not there, in a tree whose file e.js may fail.
TreeWorld ==
  [name |-> "tree", clients |-> {"c1"}, server |-> [c \in Clients |-> "s1"], writes |-> 0, churn |-> FALSE, faults |-> TRUE,
   follow |-> TRUE, modes |-> BOOLEAN,
   reqs |->
     {Get(u) : u \in {"/", "", "//", "/.", "/d/..", "/noexist.txt", "/noexist.txt/",
                      "/d/noexist/", "/a.js", "a.js", "/a.js/", "a.js/", "/a.js//",
                      "/a.js/x", "/a." \o AjsTag \o ".js", "/a." \o AjsTag \o ".js/",
                      "/a." \o ForgedTag \o ".js", "/a." \o ForgedTag \o ".js/",
                      "/b.min.js", "/b." \o hashTag("b\n") \o ".min.js",
                      "/d/sub/noext", "/d/sub/noext/",
                      "/d", "/d/", "/d." \o ForgedTag, "/d/style.css", "/d/style.css/",
                      "/d/x/../style.css", "/d//style.css/", "d/style.css",
                      "/d/style." \o StyleTag \o ".css",
                      "/d/style." \o StyleTag \o ".css/",
                      "/e.js", "/e.js/"}}
     \cup {Head_(u) : u \in {"/", "/a.js", "/a.js/", "/noexist.txt", "/d",
                             "/a." \o ForgedTag \o ".js"}}
     \cup {Post(u) : u \in {"/", "/a.js", "/a.js/", "/noexist.txt", "/d", "/e.js"}}
     \cup {[Get("/d/style.css/") EXCEPT !.query = "v=1"],
           [Get("/sub/d/style.css") EXCEPT !.prefix = "/sub"],
           [Get("/sub/d/style.css/") EXCEPT !.prefix = "/sub"],
           [Get("/sub/xyz/../a.js/") EXCEPT !.prefix = "/sub/"],
           [Get("/a.js") EXCEPT !.inm = Quoted(AjsTag)],
           [Get("/a.js") EXCEPT !.inm = Quoted(ForgedTag)],
           [Get("/a.js") EXCEPT !.inm = "W/" \o Quoted(AjsTag)],
           [Get("/a.js") EXCEPT !.inm = "*"],
           [Get("/a.js") EXCEPT !.wct = "application/x-asset"],
           [Get("/a.js/") EXCEPT !.wct = "application/x-asset"],
           [Get("/noexist.txt") EXCEPT !.wct = "application/x-asset"],
           [Get("/a.js") EXCEPT !.wct = "application/x-asset", !.inm = Quoted(AjsTag)],
           [Get("/a." \o AjsTag \o ".js") EXCEPT !.inm = Quoted(AjsTag)],
           [Get("/a.js") EXCEPT !.rng = "bytes=1-2"],
           [Get("/a." \o AjsTag \o ".js") EXCEPT !.rng = "bytes=0-9"]},
   tagNames |-> {"a.js", "/a.js", "a.js/x", "b.min.js", "d/style.css", "/d/style.css",
                 "d/sub/noext", "d", "noexist.txt", "e.js"}]

\* Two Servers over two trees, each with a client of its own: the trees hold
\* different files named style.css, of the same size and mtime; copy.css of the
\* first tree is a later copy of style.css of the second.
PairWorld ==
  [name |-> "pair", clients |-> Clients, server |-> [c1 |-> "s1", c2 |-> "s2"],
   writes |-> 0, churn |-> FALSE, faults |-> FALSE, follow |-> FALSE,
   modes |-> {FALSE},
   reqs |-> {Get("/style.css"), Get("/copy.css")},
   tagNames |-> {"style.css", "copy.css"}]

\* One client that fetches and tags a.txt while the file is rewritten, removed,
\* and replaced by a directory of its name.
ChurnWorld ==
  [name |-> "churn", clients |-> {"c1"}, server |-> [c \in Clients |-> "s1"],
   writes |-> MaxSeq, churn |-> TRUE, faults |-> FALSE, follow |-> FALSE,
   modes |-> {FALSE},
   reqs |-> {Get("/a.txt")},
   tagNames |-> {"a.txt"}]

\* One client that fetches and tags a.txt while the file is rewritten, on a
\* file tree whose operations on a.txt may fail.
FlakyWorld ==
  [name |-> "flaky", clients |-> {"c1"}, server |-> [c \in Clients |-> "s1"],
   writes |-> MaxSeq, churn |-> FALSE, faults |-> TRUE, follow |-> FALSE,
   modes |-> {FALSE},
   reqs |-> {Get("/a.txt")},
   tagNames |-> {"a.txt"}]

\* One client of a tree with files around the size of the sniff buffer, as in
\* TestServeLargeFiles.
LargeWorld ==
  [name |-> "large", clients |-> {"c1"}, server |-> [c \in Clients |-> "s1"],
   writes |-> 0, churn |-> FALSE, faults |-> FALSE, follow |-> FALSE,
   modes |-> {FALSE},
   reqs |-> {Get("/d/f"), Get("/d/f512"), Get("/d/padded"), Get("/d/big.js"),
             Get("/d/sub/noext"), Get("/a.js")},
   tagNames |-> {"d/f", "d/big.js"}]

\* Two clients of one Server that request d/style.css under several spellings
\* of its path.
CanonWorld ==
  [name |-> "canon", clients |-> Clients, server |-> [c \in Clients |-> "s1"],
   writes |-> 0, churn |-> FALSE, faults |-> FALSE, follow |-> FALSE,
   modes |-> {FALSE},
   reqs |-> {Get("/d/style.css"), Get("/d//style.css"), Get("/d/x/../style.css"),
             Get("d/style.css")},
   tagNames |-> {}]

\* Two clients of one Server that ask Tag for the name of a.txt and request the
\* name it returned, as the pages of a site do, while the writer replaces the
\* file once.
PageWorld ==
  [name |-> "page", clients |-> Clients, server |-> [c \in Clients |-> "s1"],
   writes |-> 1, churn |-> FALSE, faults |-> FALSE, follow |-> TRUE,
   modes |-> {FALSE},
   reqs |-> {},
   tagNames |-> {"a.txt"}]

Worlds == {"conc", "seq", "tree", "pair", "churn", "canon", "large", "flaky", "page"}

WorldOf(w) ==
  IF w = "conc" THEN ConcWorld ELSE IF w = "seq" THEN SeqWorld
  ELSE IF w = "pair" THEN PairWorld ELSE IF w = "churn" THEN ChurnWorld
  ELSE IF w = "canon" THEN CanonWorld ELSE IF w = "large" THEN LargeWorld
  ELSE IF w = "flaky" THEN FlakyWorld ELSE IF w = "page" THEN PageWorld
  ELSE TreeWorld

(***************************************************************************)
(* Responses                                                               *)
(***************************************************************************)

\* The name on disk of the file a call or an outcome is about.
OnDisk(l) == Under(l.srv, l.name)

\* What a finished call leaves behind: the response and the call's footprint.
Outcome(l, fields) ==
  fields @@
  [srv |-> l.srv, req |-> l.req, pth |-> l.pth, name |-> l.name, tag |-> l.tag, info |-> l.info,
   via |-> l.via, fsOps |-> l.fsOps, opened |-> l.opened, hashed |-> l.hashed,
   closed |-> l.closed,
   created |-> l.created, stored |-> l.stored, follow |-> l.follow,
   since |-> l.since,
   fileSeq |-> IF l.follow THEN FileAt(OnDisk(l)).seq ELSE -1,
   ver |-> IF l.f.valid THEN l.f.seq ELSE -1] @@ NoResp

\* http.Error(w, msg, code).
httpError(l, msg, code, hdr) ==
  Outcome(l, [kind |-> "GET", status |-> code, msg |-> msg,
              hdr |-> [hdr EXCEPT !.ContentType = "text/plain; charset=utf-8"]])

\* http.NotFound(w, r).
NotFound(l) == httpError(l, "404 page not found", 404, NoHdr)

\* An error mapping that, like http.FileServer, tells permission errors apart.
writeFSErrorForbidden(l, err) ==
  IF err = ErrNotExist THEN [NotFound(l) EXCEPT !.err = err]
  ELSE IF err = ErrPermission
  THEN [httpError(l, "403 Forbidden", 403, NoHdr) EXCEPT !.err = err]
  ELSE [httpError(l, "500 Internal Server Error", 500, NoHdr) EXCEPT !.err = err]

\* writeFSError(w, r, err).
writeFSError(l, err) ==
  IF err = ErrNotExist THEN [NotFound(l) EXCEPT !.err = err]
  ELSE [httpError(l, "500 Internal Server Error", 500, NoHdr) EXCEPT !.err = err]

\* A comparison that never finds a match.
etagWeakMatchNever(a, b) == FALSE

\* ETag comparison of If-None-Match (weak comparison, one entity tag).
etagWeakMatch(a, b) ==
  LET strip(t) == IF HasPrefix(t, "W/") THEN SliceFrom(t, 2) ELSE t
  IN  strip(a) = strip(b)

\* http.ServeContent's parseRange for one range "bytes=a-b" with one-digit a and
\* b that starts inside a content of the given size: <<first, last>>; <<-1, -1>>
\* when the request has no such Range header.
ParseRange(rng, size) ==
  LET digits == "0123456789"
      a == IndexByte(digits, At(rng, 6))
      b == IndexByte(digits, At(rng, 8))
  IN  IF Len(rng) = 9 /\ HasPrefix(rng, "bytes=") /\ At(rng, 7) = "-"
         /\ a >= 0 /\ b >= a /\ a < size
      THEN <<a, IF b >= size THEN size - 1 ELSE b>>
      ELSE <<-1, -1>>

\* http.ServeContent on the open file f with the headers the handler set.
ServeContent(l, hdr) ==
  LET text == Content(l.f.name, l.f.seq)
      ra == ParseRange(l.req.rng, Len(text))
  IN  IF l.req.inm # "" /\ (l.req.inm = "*" \/ etagWeakMatch(l.req.inm, hdr.ETag))
      THEN Outcome(l, [kind |-> "GET", status |-> 304,
                       hdr |-> [hdr EXCEPT !.ContentType = Unset]])
      ELSE IF ra[1] >= 0
      THEN Outcome(l, [kind |-> "GET", status |-> 206, hdr |-> hdr,
                       content |-> text,
                       body |-> IF l.req.method = "GET"
                                THEN Slice(text, ra[1], ra[2] + 1) ELSE ""])
      ELSE Outcome(l, [kind |-> "GET", status |-> 200, hdr |-> hdr,
                       content |-> text,
                       body |-> IF l.req.method = "GET" THEN text ELSE ""])

\* A handler that lets every method through.
MethodAllowedAny(m) == TRUE

\* ServeHTTP's method test.
MethodAllowed(m) == m = "GET" \/ m = "HEAD"

\* A choice that looks at the tag before the mode.
CacheControlTagFirst(nc, tag) ==
  IF tag # "" THEN "public, max-age=31536000, immutable"
  ELSE IF nc THEN "no-cache"
  ELSE "public, max-age=60"

\* The Cache-Control value ServeHTTP chooses.
CacheControl(nc, tag) ==
  IF nc THEN "no-cache"
  ELSE IF tag = "" THEN "public, max-age=60"
  ELSE "public, max-age=31536000, immutable"

\* The Location of the trailing-slash redirect.
RedirectTarget(pth, rawQuery) ==
  LET target == "../" \o Base(pth)
  IN  IF rawQuery # "" THEN target \o "?" \o rawQuery ELSE target

\* net/url resolvePath, element by element: dst is the path written so far.
RECURSIVE resolveElems(_, _, _)
resolveElems(elems, dst, first) ==
  IF Len(elems) = 0 THEN dst
  ELSE LET elem == Head(elems)
           str == SliceFrom(dst, 1)
           index == LastIndexByte(str, "/")
       IN  IF elem = "." THEN resolveElems(Tail(elems), dst, FALSE)
           ELSE IF elem = ".."
           THEN IF index = -1 THEN resolveElems(Tail(elems), "/", TRUE)
                ELSE resolveElems(Tail(elems), "/" \o Slice(str, 0, index), first)
           ELSE resolveElems(Tail(elems), (IF first THEN dst ELSE dst \o "/") \o elem,
                             FALSE)

\* net/url resolvePath(base, ref): the path a client requests when it follows a
\* Location ref received for the path base (RFC 3986, section 5.2).
resolvePath(base, ref) ==
  LET full == IF ref = "" THEN base
              ELSE IF At(ref, 0) # "/"
              THEN Slice(base, 0, LastIndexByte(base, "/") + 1) \o ref
              ELSE ref
      elems == SplitSlash(full)
      last == elems[Len(elems)]
      dst == resolveElems(elems, "/", TRUE)
      r == IF last = "." \/ last = ".." THEN dst \o "/" ELSE dst
  IN  IF full = "" THEN ""
      ELSE IF Len(r) > 1 /\ At(r, 1) = "/" THEN SliceFrom(r, 1)
      ELSE r

\* The request an http.Client sends when it follows the Location of a redirect
\* received for request r (TestStripPrefix's client).
FollowRedirect(r, location) ==
  LET ref == Cut(location, "?")
  IN  [r EXCEPT !.url = resolvePath(r.url, ref[1]), !.query = ref[2]]

\* An ETag without the quotes.
ETagBare(info) == info.tag

\* The ETag ServeHTTP sets: the tag of the resolved info, in double quotes.
ETagOf(info) == Quoted(info.tag)

\* A handler that does not compare tags.
TagMismatchIgnored(tag, info) == FALSE

\* Whether the tag of the request names another content than the file's.
TagMismatch(tag, info) == tag # "" /\ tag # info.tag

\* w.Header() as the handler finds it.
CallerHdr(r) == [NoHdr EXCEPT !.ContentType = IF r.wct # "" THEN r.wct ELSE Unset]

\* A handler that sets the info's content type whatever the header holds.
ContentTypeOverridden(prior, info) ==
  IF info.contentType # "" THEN info.contentType ELSE NilEntry

\* The Content-Type entry after ServeHTTP's test of the header it found.
ContentTypeSet(prior, info) ==
  IF prior # Unset THEN prior
  ELSE IF info.contentType # "" THEN info.contentType
  ELSE NilEntry

\* A ServeHTTP that sets Cache-Control and ETag as soon as the info is resolved,
\* before the redirect of a trailing slash.
ServeTailHeadersFirst(l) ==
  LET hdr == [CallerHdr(l.req) EXCEPT !.CacheControl = CacheControl(noCache, l.tag),
                                      !.ETag = ETagOf(l.info)]
  IN  IF TagMismatch(l.tag, l.info) THEN NotFound(l)
      ELSE IF HasSuffix(l.urlPath, "/")
      THEN Outcome(l, [kind |-> "GET", status |-> 308,
                       hdr |-> [hdr EXCEPT !.Location = RedirectTarget(l.pth, l.req.query)]])
      ELSE ServeContent(l,
             [hdr EXCEPT !.ContentType = ContentTypeSet(CallerHdr(l.req).ContentType, l.info)])

\* ServeHTTP from the tag test on, with the file open and its info resolved.
ServeTail(l) ==
  IF TagMismatch(l.tag, l.info) THEN NotFound(l)
  ELSE IF HasSuffix(l.urlPath, "/")
  THEN Outcome(l, [kind |-> "GET", status |-> 308,
                   hdr |-> [CallerHdr(l.req) EXCEPT
                              !.Location = RedirectTarget(l.pth, l.req.query)]])
  ELSE ServeContent(l,
         [CallerHdr(l.req) EXCEPT
            !.CacheControl = CacheControl(noCache, l.tag),
            !.ETag = ETagOf(l.info),
            !.ContentType = ContentTypeSet(CallerHdr(l.req).ContentType, l.info)])

\* What Tag returns.
TagResult(l, tagged, err) ==
  Outcome(l, [kind |-> "Tag", result |-> tagged, err |-> err])

\* strconv.Atoi(strings.Fields(body)[1]) of the test's fetch; -1: fetch fails.
SeqOfBody(body) ==
  IF Len(body) = 4 /\ Slice(body, 0, 2) = "a " /\ At(body, 3) = "\n"
     /\ IndexByte("0123456789", At(body, 2)) >= 0
  THEN IndexByte("0123456789", At(body, 2))
  ELSE -1

(***************************************************************************)
(* Calls                                                                   *)
(***************************************************************************)

\* The goroutines of TestChangingFiles whose lastSeq is kept: one of them, the
\* others being clients like it that fetch and tag at the same time.
Readers == {"c1"}

Finish(c, r) ==
  /\ pr' = [pr EXCEPT ![c] = Idle]
  /\ resp' = [resp EXCEPT ![c] = r]
  /\ lastSeq' = IF r.kind = "GET" /\ r.status = 200 /\ r.req.method = "GET"
                   /\ r.name = "a.txt" /\ c \in Readers
                THEN [lastSeq EXCEPT ![c] = SeqOfBody(r.body)]
                ELSE lastSeq

Goto(c, l) ==
  /\ pr' = [pr EXCEPT ![c] = l]
  /\ UNCHANGED <<resp, lastSeq>>

\* A call starts: the client no longer looks at its previous outcome.
Begin(c, l) ==
  /\ pr' = [pr EXCEPT ![c] = l]
  /\ resp' = [resp EXCEPT ![c] = NoResp]
  /\ UNCHANGED lastSeq

\* The info the cache has for the name of a call; NilInfo if it has none.
CachedInfo(l) ==
  IF l.name \in DOMAIN cache[cacheOf(l.srv)]
  THEN holders[cache[cacheOf(l.srv)][l.name]]
  ELSE NilInfo

\* A failure that falls back on the info the cache still has: its tag goes out
\* as the ETag of the error response and in the name Tag returns.
ReturnErrWithCachedTag(c, l, err) ==
  LET l2 == IF l.f.valid THEN [l EXCEPT !.closed = @ + 1] ELSE l
      cached == CachedInfo(l)
  IN  IF cached.nil
      THEN IF l.ret = "serve" THEN Finish(c, writeFSError(l2, err))
           ELSE Finish(c, TagResult(l2, "", err))
      ELSE IF l.ret = "serve"
           THEN Finish(c, [writeFSError(l2, err) EXCEPT !.hdr.ETag = ETagOf(cached)])
           ELSE Finish(c, TagResult(l2, insertTag(l.name, cached.tag), err))

\* An openWithInfo that leaves the closing of the handle to its caller, whom it
\* gives no handle when it fails.
ReturnErrUnclosed(c, l, err) ==
  IF l.ret = "serve" THEN Finish(c, writeFSError(l, err))
  ELSE Finish(c, TagResult(l, "", err))

\* The deferred fv.Close() of openWithInfo runs, and the error reaches the caller.
ReturnErr(c, l, err) ==
  LET l2 == IF l.f.valid THEN [l EXCEPT !.closed = @ + 1] ELSE l
  IN  IF l.ret = "serve" THEN Finish(c, writeFSError(l2, err))
      ELSE Finish(c, TagResult(l2, "", err))

\* openWithInfo returns (f, info, nil) to its caller.
ReturnOK(c, l) ==
  Goto(c, [l EXCEPT !.pc = IF l.ret = "serve" THEN "respond" ELSE "tagret"])

\* http.StripPrefix: the path the handler sees.
StripPrefix(r) ==
  IF r.prefix # "" /\ HasPrefix(r.url, r.prefix) THEN SliceFrom(r.url, Len(r.prefix))
  ELSE r.url

\* A handler that takes the request path as it comes.
ParsePathAsGiven(r) ==
  LET hp == StripPrefix(r)
      urlPath == IF HasPrefix(hp, "/") THEN hp ELSE "/" \o hp
      rt == IF urlPath = "/" THEN <<"", "/">> ELSE removeTag(urlPath)
  IN  [urlPath |-> urlPath, pth |-> urlPath, tag |-> rt[1], name |-> SliceFrom(rt[2], 1)]

\* A handler that cleans the request path without making it absolute first.
ParsePathUnrooted(r) ==
  LET hp == StripPrefix(r)
      pth == Clean(hp)
      rt == IF pth = "/" THEN <<"", "/">> ELSE removeTag(pth)
  IN  [urlPath |-> hp, pth |-> pth, tag |-> rt[1],
       name |-> IF HasPrefix(rt[2], "/") THEN SliceFrom(rt[2], 1) ELSE rt[2]]

\* ServeHTTP's path handling: the request path made absolute and cleaned, the tag
\* removed, the leading slash trimmed.
ParsePath(r) ==
  LET hp == StripPrefix(r)
      urlPath == IF HasPrefix(hp, "/") THEN hp ELSE "/" \o hp
      pth == Clean(urlPath)
      rt == IF pth = "/" THEN <<"", "/">> ELSE removeTag(pth)
  IN  [urlPath |-> urlPath, pth |-> pth, tag |-> rt[1], name |-> SliceFrom(rt[2], 1)]

\* ParsePath of the requests of the deployments, computed once.
ParsedRepertoire ==
  [r \in ConcWorld.reqs \cup SeqWorld.reqs \cup TreeWorld.reqs \cup PairWorld.reqs
      \cup ChurnWorld.reqs \cup CanonWorld.reqs \cup LargeWorld.reqs |->
     ParsePath(r)]

Parsed(r) == IF r \in DOMAIN ParsedRepertoire THEN ParsedRepertoire[r] ELSE ParsePath(r)

\* A handler without the test for the root.
IsRootNever(pth) == FALSE

\* ServeHTTP's test for the root, which is never served.
IsRoot(pth) == pth = "/"

\* ServeHTTP up to the call of openWithInfo.
ServeStart(c, r, follow, since) ==
  LET l0 == [Idle EXCEPT !.srv = WorldOf(world).server[c], !.req = r,
                         !.follow = follow, !.since = since]
      pp == Parsed(r)
      l == [l0 EXCEPT !.urlPath = pp.urlPath, !.pth = pp.pth, !.tag = pp.tag,
                      !.name = pp.name, !.ret = "serve"]
  IN  IF ~MethodAllowed(r.method)
      THEN Finish(c, httpError(l0, "405 Method Not Allowed", 405,
                               [NoHdr EXCEPT !.Allow = "GET,HEAD"]))
      ELSE IF IsRoot(pp.pth) THEN Finish(c, NotFound(l))
      ELSE Begin(c, [l EXCEPT !.pc = "open"])

\* A client sends a request of its repertoire.
ServeHTTP(c) ==
  /\ c \in WorldOf(world).clients
  /\ pr[c].pc = "idle"
  /\ \E r \in WorldOf(world).reqs : ServeStart(c, r, FALSE, -1)
  /\ UNCHANGED <<sum, noCache, world, files, cache, holders, mu>>

\* A client requests the name its last Tag call returned (as a template does).
ServeTagged(c) ==
  /\ c \in WorldOf(world).clients
  /\ pr[c].pc = "idle"
  /\ WorldOf(world).follow
  /\ resp[c].kind = "Tag" /\ resp[c].err = NoErr
  /\ LET t == resp[c].result
     IN  ServeStart(c, [NoReq EXCEPT !.method = "GET",
                                     !.url = IF HasPrefix(t, "/") THEN t ELSE "/" \o t],
                    TRUE, resp[c].since)
  /\ UNCHANGED <<sum, noCache, world, files, cache, holders, mu>>

\* An openWithInfo that inserts the holder of a name before it opens the name.
OpenAfterInsert(c) ==
  LET l == [pr[c] EXCEPT !.fsOps = @ + 1, !.fi = NoStat, !.p = NoHolder, !.ok = FALSE,
                         !.info = NilInfo]
      st == FileAt(OnDisk(l))
      id == <<l.name, c>>
  IN  /\ pr[c].pc = "open"
      /\ \/ /\ st.kind = "absent"
            /\ ReturnErr(c, [l EXCEPT !.created = (l.name \notin DOMAIN cache[cacheOf(l.srv)])],
                         MissingErr(OnDisk(l)))
            /\ IF (l.name \notin DOMAIN cache[cacheOf(l.srv)])
               THEN /\ holders' = (id :> NilInfo) @@ holders
                    /\ cache' = [cache EXCEPT ![cacheOf(l.srv)] = (l.name :> id) @@ @]
               ELSE UNCHANGED <<cache, holders>>
         \/ /\ st.kind # "absent"
            /\ Goto(c, [l EXCEPT !.pc = "stat", !.f = OpenHandle(OnDisk(l)),
                                 !.opened = @ + 1])
            /\ UNCHANGED <<cache, holders>>
      /\ UNCHANGED <<sum, noCache, world, files, mu>>

\* openWithInfo: s.fsys.Open(name).
Open(c) ==
  LET l == [pr[c] EXCEPT !.fsOps = @ + 1, !.fi = NoStat, !.p = NoHolder, !.ok = FALSE,
                         !.info = NilInfo]
      st == FileAt(OnDisk(l))
  IN  /\ pr[c].pc = "open"
      /\ \/ st.kind = "absent" /\ ReturnErr(c, l, MissingErr(OnDisk(l)))
         \/ /\ st.kind # "absent"
            /\ Goto(c, [l EXCEPT !.pc = "stat", !.f = OpenHandle(OnDisk(l)),
                                 !.opened = @ + 1])
         \/ st.kind # "absent" /\ WorldOf(world).faults /\ l.name \in Faulty
            /\ ReturnErr(c, l, ErrPermission)
      /\ UNCHANGED <<sum, noCache, world, files, cache, holders, mu>>

\* openWithInfo: fv.Stat() and the directory test.
Stat(c) ==
  LET l == pr[c]
  IN  /\ l.pc = "stat"
      /\ \/ WorldOf(world).faults /\ l.name \in Faulty /\ ReturnErr(c, l, ErrIO)
         \/ l.f.isDir /\ ReturnErr(c, l, ErrNotExist)
         \/ ~l.f.isDir /\ Goto(c, [l EXCEPT !.pc = "rlock", !.fi = HandleStat(l.f)])
      /\ UNCHANGED <<sum, noCache, world, files, cache, holders, mu>>

\* openWithInfo: s.mu.RLock(); p, ok := s.cache[name]
RLock(c) ==
  LET l == pr[c]
      ok == l.name \in DOMAIN cache[cacheOf(l.srv)]
  IN  /\ l.pc = "rlock"
      /\ mu[l.srv].writer = ""
      /\ mu' = [mu EXCEPT ![l.srv].readers = @ \cup {c}]
      /\ Goto(c, [l EXCEPT !.pc = "runlock", !.ok = ok,
                           !.p = IF ok THEN cache[cacheOf(l.srv)][l.name] ELSE NoHolder])
      /\ UNCHANGED <<sum, noCache, world, files, cache, holders>>

\* An openWithInfo that keeps the shared lock until it returns.
RUnlockDeferred(c) ==
  LET l == pr[c]
  IN  /\ l.pc = "runlock"
      /\ Goto(c, [l EXCEPT !.pc = IF l.ok THEN "load" ELSE "lock"])
      /\ UNCHANGED <<sum, noCache, world, files, cache, holders, mu>>

\* openWithInfo: s.mu.RUnlock()
RUnlock(c) ==
  LET l == pr[c]
  IN  /\ l.pc = "runlock"
      /\ mu' = [mu EXCEPT ![l.srv].readers = @ \ {c}]
      /\ Goto(c, [l EXCEPT !.pc = IF l.ok THEN "load" ELSE "lock"])
      /\ UNCHANGED <<sum, noCache, world, files, cache, holders>>

\* An openWithInfo that does not look again once it holds the exclusive lock.
MustCreateAlways(s, name) == TRUE

\* Whether openWithInfo, holding the exclusive lock, still has to insert a holder.
MustCreate(s, name) == name \notin DOMAIN cache[cacheOf(s)]

\* An openWithInfo that, once it holds the exclusive lock, inserts a new holder
\* on the strength of what it saw under the shared lock.
LockWithoutSecondLook(c) ==
  LET l == pr[c]
      id == <<l.name, c>>
  IN  /\ l.pc = "lock"
      /\ mu[l.srv].writer = "" /\ mu[l.srv].readers = {}
      /\ mu' = [mu EXCEPT ![l.srv].writer = c]
      /\ holders' = (id :> NilInfo) @@ holders
      /\ cache' = [cache EXCEPT ![cacheOf(l.srv)] = (l.name :> id) @@ @]
      /\ Goto(c, [l EXCEPT !.pc = "unlock", !.p = id, !.created = TRUE])
      /\ UNCHANGED <<sum, noCache, world, files>>

\* openWithInfo: s.mu.Lock(); look again; insert a new holder if there is none.
Lock(c) ==
  LET l == pr[c]
      id == <<l.name, c>>
  IN  /\ l.pc = "lock"
      /\ mu[l.srv].writer = "" /\ mu[l.srv].readers = {}
      /\ mu' = [mu EXCEPT ![l.srv].writer = c]
      /\ IF MustCreate(l.srv, l.name)
         THEN /\ holders' = (id :> NilInfo) @@ holders
              /\ cache' = [cache EXCEPT ![cacheOf(l.srv)] = (l.name :> id) @@ @]
              /\ Goto(c, [l EXCEPT !.pc = "unlock", !.p = id, !.created = TRUE])
         ELSE /\ Goto(c, [l EXCEPT !.pc = "unlock", !.p = cache[cacheOf(l.srv)][l.name],
                                   !.ok = TRUE])
              /\ UNCHANGED <<cache, holders>>
      /\ UNCHANGED <<sum, noCache, world, files>>

\* openWithInfo: s.mu.Unlock()
Unlock(c) ==
  LET l == pr[c]
  IN  /\ l.pc = "unlock"
      /\ mu' = [mu EXCEPT ![l.srv].writer = ""]
      /\ Goto(c, [l EXCEPT !.pc = "load"])
      /\ UNCHANGED <<sum, noCache, world, files, cache, holders>>

\* An openWithInfo that does not read the file itself when the holder has no
\* current info, but looks into the map again until another call has stored one.
LoadWaitsForStore(c) ==
  LET l == [pr[c] EXCEPT !.info = holders[pr[c].p]]
  IN  /\ pr[c].pc = "load"
      /\ IF InfoMatches(l.fi, l.info)
         THEN ReturnOK(c, [l EXCEPT !.via = "cache"])
         ELSE Goto(c, [l EXCEPT !.pc = "rlock"])
      /\ UNCHANGED <<sum, noCache, world, files, cache, holders, mu>>

\* An openWithInfo that returns whatever info the holder has.
LoadWithoutComparison(c) ==
  LET l == [pr[c] EXCEPT !.info = holders[pr[c].p]]
  IN  /\ pr[c].pc = "load"
      /\ IF ~l.info.nil
         THEN ReturnOK(c, [l EXCEPT !.via = "cache"])
         ELSE Goto(c, [l EXCEPT !.pc = "readInfo"])
      /\ UNCHANGED <<sum, noCache, world, files, cache, holders, mu>>

\* openWithInfo: info = p.Load() and the comparison with the handle's stat.
Load(c) ==
  LET l == [pr[c] EXCEPT !.info = holders[pr[c].p]]
  IN  /\ pr[c].pc = "load"
      /\ IF InfoMatches(l.fi, l.info)
         THEN ReturnOK(c, [l EXCEPT !.via = "cache"])
         ELSE Goto(c, [l EXCEPT !.pc = "readInfo"])
      /\ UNCHANGED <<sum, noCache, world, files, cache, holders, mu>>

\* openWithInfo: s.readInfo(f), which stats and reads the handle to its end.
ReadInfo(c) ==
  LET l == [pr[c] EXCEPT !.hashed = @ + 1]
  IN  /\ l.pc = "readInfo"
      /\ \/ WorldOf(world).faults /\ l.name \in Faulty /\ ReturnErr(c, l, ErrIO)
         \/ Goto(c, [l EXCEPT !.pc = "seek", !.info = readInfo(l.f),
                              !.f = [l.f EXCEPT !.pos = l.f.size]])
      /\ UNCHANGED <<sum, noCache, world, files, cache, holders, mu>>

\* An openWithInfo that leaves the handle where readInfo has read it to.
SeekNowhere(c) ==
  LET l == pr[c]
  IN  /\ l.pc = "seek"
      /\ \/ WorldOf(world).faults /\ l.name \in Faulty /\ ReturnErr(c, l, ErrIO)
         \/ Goto(c, [l EXCEPT !.pc = "store"])
      /\ UNCHANGED <<sum, noCache, world, files, cache, holders, mu>>

\* An openWithInfo that stores the info before it rewinds the handle.
SeekAfterStore(c) ==
  LET l == pr[c]
  IN  /\ l.pc = "seek"
      /\ \/ /\ WorldOf(world).faults /\ l.name \in Faulty
            /\ holders' = [holders EXCEPT ![l.p] = l.info]
            /\ ReturnErr(c, [l EXCEPT !.stored = TRUE], ErrIO)
         \/ /\ Goto(c, [l EXCEPT !.pc = "store", !.f = [l.f EXCEPT !.pos = 0]])
            /\ UNCHANGED holders
      /\ UNCHANGED <<sum, noCache, world, files, cache, mu>>

\* openWithInfo: f.Seek(0, io.SeekStart)
Seek(c) ==
  LET l == pr[c]
  IN  /\ l.pc = "seek"
      /\ \/ WorldOf(world).faults /\ l.name \in Faulty /\ ReturnErr(c, l, ErrIO)
         \/ Goto(c, [l EXCEPT !.pc = "store", !.f = [l.f EXCEPT !.pos = 0]])
      /\ UNCHANGED <<sum, noCache, world, files, cache, holders, mu>>

\* A store that writes the size and the time into the info the holder has,
\* and leaves the tag and the content type for later.
StoreFieldwise(c) ==
  LET l == pr[c]
  IN  /\ l.pc = "store"
      /\ holders' = [holders EXCEPT ![l.p] = [@ EXCEPT !.nil = FALSE, !.size = l.info.size,
                                                       !.mtime = l.info.mtime]]
      /\ ReturnOK(c, [l EXCEPT !.stored = TRUE, !.via = "recompute"])
      /\ UNCHANGED <<sum, noCache, world, files, cache, mu>>

\* An openWithInfo that stores its info in an empty holder only.
StoreOnce(c) ==
  LET l == pr[c]
  IN  /\ l.pc = "store"
      /\ holders' = IF holders[l.p].nil THEN [holders EXCEPT ![l.p] = l.info] ELSE holders
      /\ ReturnOK(c, [l EXCEPT !.stored = TRUE, !.via = "recompute"])
      /\ UNCHANGED <<sum, noCache, world, files, cache, mu>>

\* openWithInfo: p.Store(info); return f, info, nil
Store(c) ==
  LET l == pr[c]
  IN  /\ l.pc = "store"
      /\ holders' = [holders EXCEPT ![l.p] = l.info]
      /\ ReturnOK(c, [l EXCEPT !.stored = TRUE, !.via = "recompute"])
      /\ UNCHANGED <<sum, noCache, world, files, cache, mu>>

\* ServeHTTP after openWithInfo returned a file; the deferred f.Close() runs.
Respond(c) ==
  LET l == [pr[c] EXCEPT !.closed = @ + 1]
  IN  /\ l.pc = "respond"
      /\ Finish(c, ServeTail(l))
      /\ UNCHANGED <<sum, noCache, world, files, cache, holders, mu>>

\* Tag(name) up to the call of tryCachedInfo.
Tag(c) ==
  /\ c \in WorldOf(world).clients
  /\ pr[c].pc = "idle"
  /\ \E n \in WorldOf(world).tagNames :
       LET cut == CutPrefix(n, "/")
           srv == WorldOf(world).server[c]
       IN  Begin(c, [Idle EXCEPT !.pc = "tstat", !.srv = srv,
                                !.req = [NoReq EXCEPT !.method = "Tag", !.url = n],
                                !.name = cut[1], !.hadSlash = cut[2], !.ret = "tag",
                                !.since = IF WorldOf(world).follow
                                          THEN FileAt(Under(srv, cut[1])).seq ELSE -1])
  /\ UNCHANGED <<sum, noCache, world, files, cache, holders, mu>>

\* tryCachedInfo: fs.Stat(s.fsys, name) and the directory test.
TStat(c) ==
  LET l == [pr[c] EXCEPT !.fsOps = @ + 1]
      st == FileAt(OnDisk(l))
  IN  /\ l.pc = "tstat"
      /\ \/ st.kind = "absent" /\ Finish(c, TagResult(l, "", MissingErr(OnDisk(l))))
         \/ st.kind # "absent" /\ WorldOf(world).faults /\ l.name \in Faulty
            /\ Finish(c, TagResult(l, "", ErrPermission))
         \/ st.kind = "dir" /\ Finish(c, TagResult(l, "", ErrNotExist))
         \/ st.kind = "file" /\ Goto(c, [l EXCEPT !.pc = "trlock", !.fi = PathStat(OnDisk(l))])
      /\ UNCHANGED <<sum, noCache, world, files, cache, holders, mu>>

\* tryCachedInfo: s.mu.RLock(); p, ok := s.cache[name]
TRLock(c) ==
  LET l == pr[c]
      ok == l.name \in DOMAIN cache[cacheOf(l.srv)]
  IN  /\ l.pc = "trlock"
      /\ mu[l.srv].writer = ""
      /\ mu' = [mu EXCEPT ![l.srv].readers = @ \cup {c}]
      /\ Goto(c, [l EXCEPT !.pc = "trunlock", !.ok = ok,
                           !.p = IF ok THEN cache[cacheOf(l.srv)][l.name] ELSE NoHolder])
      /\ UNCHANGED <<sum, noCache, world, files, cache, holders>>

\* tryCachedInfo: s.mu.RUnlock(); without a holder there is no cached info.
TRUnlock(c) ==
  LET l == pr[c]
  IN  /\ l.pc = "trunlock"
      /\ mu' = [mu EXCEPT ![l.srv].readers = @ \ {c}]
      /\ Goto(c, [l EXCEPT !.pc = IF l.ok THEN "tload" ELSE "open"])
      /\ UNCHANGED <<sum, noCache, world, files, cache, holders>>

\* A Tag that goes on to openWithInfo whatever the holder has.
TLoadAlwaysOpens(c) ==
  LET l == [pr[c] EXCEPT !.info = holders[pr[c].p]]
  IN  /\ pr[c].pc = "tload"
      /\ Goto(c, [l EXCEPT !.pc = "open"])
      /\ UNCHANGED <<sum, noCache, world, files, cache, holders, mu>>

\* tryCachedInfo: info := p.Load() and the comparison with the path's stat.
TLoad(c) ==
  LET l == [pr[c] EXCEPT !.info = holders[pr[c].p]]
  IN  /\ pr[c].pc = "tload"
      /\ IF InfoMatches(l.fi, l.info)
         THEN Goto(c, [l EXCEPT !.pc = "tagret", !.via = "cache"])
         ELSE Goto(c, [l EXCEPT !.pc = "open"])
      /\ UNCHANGED <<sum, noCache, world, files, cache, holders, mu>>

\* Tag: f.Close() after a recompute, then the tagged name.
TagReturn(c) ==
  LET l == IF pr[c].f.valid THEN [pr[c] EXCEPT !.closed = @ + 1] ELSE pr[c]
      tagged == insertTag(l.name, l.info.tag)
  IN  /\ l.pc = "tagret"
      /\ Finish(c, TagResult(l, withSlash(l.hadSlash, tagged), NoErr))
      /\ UNCHANGED <<sum, noCache, world, files, cache, holders, mu>>

\* The writer of TestChangingFiles: renameio.WriteFile replaces a.txt atomically
\* with the next sequence number. The new file carries the time of the clock of
\* the file system at the write: a later one, or, within one tick of the clock,
\* the one the version before it carries.
WriteFile ==
  /\ files["a.txt"].seq < WorldOf(world).writes
  /\ files["a.txt"].kind # "dir"
  /\ \E tick \in {0, 1} :
       files' = [files EXCEPT !["a.txt"] = [kind |-> "file", seq |-> @.seq + 1,
                                           mtime |-> @.mtime + tick]]
  /\ UNCHANGED <<sum, noCache, world, cache, holders, mu, pr, resp, lastSeq>>

\* os.Remove of a.txt, a file or an empty directory.
Remove ==
  /\ WorldOf(world).churn
  /\ files["a.txt"].kind # "absent"
  /\ files' = [files EXCEPT !["a.txt"].kind = "absent"]
  /\ UNCHANGED <<sum, noCache, world, cache, holders, mu, pr, resp, lastSeq>>

\* os.Mkdir of a.txt where the file was.
Mkdir ==
  /\ WorldOf(world).churn
  /\ files["a.txt"].kind = "absent"
  /\ files' = [files EXCEPT !["a.txt"].kind = "dir"]
  /\ UNCHANGED <<sum, noCache, world, cache, holders, mu, pr, resp, lastSeq>>

\* The tree of testdata/assets, with the file a.txt the writer replaces, the
\* file e.js whose operations may fail, and the files style.css and copy.css
\* that make the directory d a second tree with a style.css of its own, and the
\* files of LargeWorld.
InitFiles ==
  [n \in {"a.txt", "a.js", "b.min.js", "d", "d/sub", "d/style.css", "d/sub/noext", "e.js",
          "style.css", "copy.css", "d/f", "d/f512", "d/padded", "d/big.js"} |->
     [kind |-> IF n \in {"d", "d/sub"} THEN "dir" ELSE "file", seq |-> 0,
      mtime |-> IF n = "copy.css" THEN 2 ELSE 1]]

\* New(fsys) or NewNoCache(fsys): an empty cache.
Init ==
  /\ world \in Worlds
  /\ noCache \in WorldOf(world).modes
  /\ sum = <<>>
  /\ files = InitFiles
  /\ cache = [s \in Servers |-> <<>>]
  /\ holders = <<>>
  /\ mu = [s \in Servers |-> [readers |-> {}, writer |-> ""]]
  /\ pr = [c \in Clients |-> Idle]
  /\ resp = [c \in Clients |-> NoResp]
  /\ lastSeq = [c \in Clients |-> 0]

Next ==
  \/ \E c \in Clients :
       \/ ServeHTTP(c) \/ ServeTagged(c) \/ Open(c) \/ Stat(c) \/ RLock(c)
       \/ RUnlock(c) \/ Lock(c) \/ Unlock(c) \/ Load(c) \/ ReadInfo(c) \/ Seek(c)
       \/ Store(c) \/ Respond(c) \/ Tag(c) \/ TStat(c) \/ TRLock(c) \/ TRUnlock(c)
       \/ TLoad(c) \/ TagReturn(c)
  \/ WriteFile \/ Remove \/ Mkdir

Spec == Init /\ [][Next]_vars

(***************************************************************************)
(* Concurrent calls under fair scheduling                                  *)
(***************************************************************************)

\* The clients of TestChangingFiles, as in ConcWorld, when the writer has one
\* replacement of a.txt left to make and the server has served nothing yet.
LiveInit ==
  /\ world = "conc"
  /\ noCache \in WorldOf(world).modes
  /\ sum = <<>>
  /\ files = [InitFiles EXCEPT !["a.txt"].seq = WorldOf(world).writes - 1,
                              !["a.txt"].mtime = @ + WorldOf(world).writes - 1]
  /\ cache = [s \in Servers |-> <<>>]
  /\ holders = <<>>
  /\ mu = [s \in Servers |-> [readers |-> {}, writer |-> ""]]
  /\ pr = [c \in Clients |-> Idle]
  /\ resp = [c \in Clients |-> NoResp]
  /\ lastSeq = [c \in Clients |-> 0]

\* A step of a call that waits for nothing: file operations return, and so do
\* the releases of the lock and the loads and stores of a holder.
Step(c) ==
  \/ Open(c) \/ Stat(c) \/ RUnlock(c) \/ Unlock(c) \/ Load(c) \/ Seek(c)
  \/ Store(c) \/ Respond(c) \/ TStat(c) \/ TRUnlock(c) \/ TLoad(c)

\* A step that takes the lock of the map, shared or exclusive.
Acquire(c) == RLock(c) \/ Lock(c) \/ TRLock(c)

LiveNext ==
  \/ \E c \in Clients :
       \/ ServeHTTP(c) \/ Tag(c) \/ Step(c) \/ Acquire(c)
       \/ ReadInfo(c) \/ TagReturn(c)
  \/ WriteFile

\* The scheduler runs every goroutine that can run, and sync.RWMutex lets
\* neither readers nor writers starve. For readInfo and for the return of Tag,
\* which can run whenever the call has reached them, weak fairness is written
\* out: a call does not stay there for ever.
LiveSpec ==
  /\ LiveInit /\ [][LiveNext]_vars
  /\ \A c \in Clients :
       /\ WF_vars(Step(c)) /\ SF_vars(Acquire(c))
       /\ []<>(pr[c].pc # "readInfo") \/ []<><<ReadInfo(c)>>_vars
       /\ []<>(pr[c].pc # "tagret") \/ []<><<TagReturn(c)>>_vars

(***************************************************************************)
(* Tag and removeTag on names and tags of every shape                      *)
(***************************************************************************)

\* File names as given to the fs.FS (fs.ValidPath): without extension, with one
\* extension, with several, with an extension or a head that looks like a tag,
\* with an empty head or tail, in directories with and without a dot.
Names ==
  {"noext", "a.js", "b.min.js", "x.tar.gz", "d/style.css", "d/sub/noext",
   "d.v2/lib.min.js", ".profile", "a.", "a..js", "a.abcABC1234", "xyzXYZxyzX",
   "a.1231231234.js"}

\* Tags: digests of contents, and the tags of TestRemoveTag.
Tags == {AjsTag, StyleTag, "abcABC1234", "1231231234"}

\* Paths as ServeHTTP hands them to removeTag: those of TestRemoveTag, with a
\* tag, with segments of other lengths or with other characters, and more with
\* a tag-shaped segment in other places or in the directory.
Paths ==
  {"d/style.abcABC1234.css", "/d/style.abcABC1234.css", "a.1231231234.js",
   "b.1231231234.min.js", "d/sub/noext.xyzXYZxyzX",
   "d/style.abcABC12345.css", "a.12312312.js", "d/sub/noext.xyzXYZ_xyz",
   "/noext", "/a.js", "/b.min.js", "/a.abcABC123", "/a.abcABC12-4.js",
   "/a.min.abcABC1234.js", "/a.js.abcABC1234", "/a.tar.gz.abcABC1234",
   "/d.abcABC1234/noext", "/d.abcABC1234/a.js", "/d.v2/noext.abcABC1234",
   "/d/.abcABC1234", "/a.abcABC1234.1231231234.js"}

\* A name and the tag of its info, before Tag builds the tagged name; or a path,
\* before removeTag takes it apart.
TagInit ==
  /\ world = "names"
  /\ noCache = FALSE
  /\ sum = <<>>
  /\ files = InitFiles
  /\ cache = [s \in Servers |-> <<>>]
  /\ holders = <<>>
  /\ mu = [s \in Servers |-> [readers |-> {}, writer |-> ""]]
  /\ pr = [c \in Clients |-> Idle]
  /\ lastSeq = [c \in Clients |-> 0]
  /\ \/ \E n \in Names, t \in Tags, slash \in BOOLEAN :
          resp = [c \in Clients |->
                    IF c = "c1"
                    THEN [NoResp EXCEPT !.req = [NoReq EXCEPT !.method = "Tag",
                                                              !.url = IF slash THEN "/" \o n ELSE n],
                                        !.info = [NilInfo EXCEPT !.nil = FALSE, !.tag = t]]
                    ELSE NoResp]
     \/ \E p \in Paths :
          resp = [c \in Clients |-> IF c = "c2" THEN [NoResp EXCEPT !.pth = p] ELSE NoResp]

\* Tag from the cut of the leading slash on, with the info at hand.
InsertTag ==
  /\ resp["c1"].kind = "" /\ resp["c1"].req.method = "Tag"
  /\ LET cut == CutPrefix(resp["c1"].req.url, "/")
         tagged == insertTag(cut[1], resp["c1"].info.tag)
     IN  resp' = [resp EXCEPT !["c1"] =
                    [@ EXCEPT !.kind = "Tag", !.name = cut[1],
                              !.result = withSlash(cut[2], tagged)]]
  /\ UNCHANGED <<sum, noCache, world, files, cache, holders, mu, pr, lastSeq>>

\* removeTag of the name Tag returned.
RemoveTag ==
  /\ resp["c1"].kind = "Tag" /\ resp["c2"].kind = ""
  /\ LET rt == removeTag(resp["c1"].result)
     IN  resp' = [resp EXCEPT !["c2"] =
                    [@ EXCEPT !.kind = "removeTag", !.pth = resp["c1"].result,
                              !.tag = rt[1], !.name = rt[2]]]
  /\ UNCHANGED <<sum, noCache, world, files, cache, holders, mu, pr, lastSeq>>

\* ServeHTTP's tag, name := removeTag(pth).
RemoveTagOfPath ==
  /\ resp["c2"].kind = "" /\ resp["c2"].pth # ""
  /\ LET rt == removeTag(resp["c2"].pth)
     IN  resp' = [resp EXCEPT !["c2"] = [@ EXCEPT !.kind = "path", !.tag = rt[1],
                                                  !.name = rt[2]]]
  /\ UNCHANGED <<sum, noCache, world, files, cache, holders, mu, pr, lastSeq>>

TagNext == InsertTag \/ RemoveTag \/ RemoveTagOfPath

TagSpec == TagInit /\ [][TagNext]_vars

(***************************************************************************)
(* makeTag on digests of every shape                                       *)
(***************************************************************************)

\* The leading ten bytes of digests: the digests of the contents of the tree,
\* and digests whose first eight bytes make the least and the greatest numbers,
\* numbers below and at 62, and numbers with zero digits in between; the
\* ninth byte varies on its own.
Digests ==
  {Sum256(t) : t \in DOMAIN TagRepertoire}
    \cup {<<a, b, 0, 0, 0, 0, c, d, e, 0>> :
            a \in {0, 1, 255}, b \in {0, 255}, c \in {0, 15, 255},
            d \in {0, 1, 61, 62, 255}, e \in {0, 7}}

\* A digest, before makeTag encodes it.
DigestInit ==
  /\ world = "digests"
  /\ noCache = FALSE
  /\ sum \in Digests
  /\ files = InitFiles
  /\ cache = [s \in Servers |-> <<>>]
  /\ holders = <<>>
  /\ mu = [s \in Servers |-> [readers |-> {}, writer |-> ""]]
  /\ pr = [c \in Clients |-> Idle]
  /\ resp = [c \in Clients |-> NoResp]
  /\ lastSeq = [c \in Clients |-> 0]

\* readInfo's tag: makeTag(h.Sum(nil)).
MakeTag ==
  /\ resp["c1"].kind = ""
  /\ resp' = [resp EXCEPT !["c1"] = [@ EXCEPT !.kind = "makeTag", !.tag = makeTag(sum)]]
  /\ UNCHANGED <<sum, noCache, world, files, cache, holders, mu, pr, lastSeq>>

DigestNext == MakeTag

DigestSpec == DigestInit /\ [][DigestNext]_vars

(***************************************************************************)
(* ServeHTTP on request paths of every shape                               *)
(***************************************************************************)

\* The longest request path, in elements.
MaxSegs == 3

\* The elements of request paths: directories and files of the tree, the
\* elements path.Clean removes, and names with a tag whose rest is dots.
Segs == {"d", "a.js", "..", ".", "", "a." \o AjsTag \o ".js", "." \o AjsTag \o ".."}

\* r.URL.Path: elements between slashes, with and without a slash in front.
RequestPaths ==
  {lead \o JoinSlash(elems) :
     lead \in {"", "/"}, elems \in UNION {[1..n -> Segs] : n \in 1..MaxSegs}}

\* A request, before ServeHTTP looks at its path.
PathInit ==
  /\ world = "paths"
  /\ noCache = FALSE
  /\ sum = <<>>
  /\ files = InitFiles
  /\ cache = [s \in Servers |-> <<>>]
  /\ holders = <<>>
  /\ mu = [s \in Servers |-> [readers |-> {}, writer |-> ""]]
  /\ pr = [c \in Clients |-> Idle]
  /\ lastSeq = [c \in Clients |-> 0]
  /\ \E u \in RequestPaths :
       resp = [c \in Clients |->
                 IF c = "c1" THEN [NoResp EXCEPT !.req = [NoReq EXCEPT !.method = "GET", !.url = u]]
                 ELSE NoResp]

\* ServeHTTP up to the call s.openWithInfo(taglessPath[1:]): the name it passes,
\* which is the key of the cache; or the 404 of the root.
PassName ==
  /\ resp["c1"].kind = ""
  /\ LET pp == ParsePath(resp["c1"].req)
     IN  resp' = [resp EXCEPT !["c1"] =
                    [@ EXCEPT !.kind = IF IsRoot(pp.pth) THEN "root" ELSE "open",
                              !.pth = pp.pth, !.tag = pp.tag, !.name = pp.name]]
  /\ UNCHANGED <<sum, noCache, world, files, cache, holders, mu, pr, lastSeq>>

PathNext == PassName

PathSpec == PathInit /\ [][PathNext]_vars

(***************************************************************************)
(* Properties                                                              *)
(***************************************************************************)

Immutable == "public, max-age=31536000, immutable"

\* The statuses of the answers ServeHTTP hands to http.ServeContent.
Delegated == {200, 206, 304}

\* The finished ServeHTTP calls, by client.
Responses == {resp[c] : c \in Clients} \ {r \in {resp[c] : c \in Clients} : r.kind # "GET"}

\* The finished Tag calls, by client.
TagResults == {r \in {resp[c] : c \in Clients} : r.kind = "Tag"}

\* The tags of the versions of a file on disk.
TagsOfFile ==
  [n \in {m \in DOMAIN InitFiles : InitFiles[m].kind = "file"} |->
     [q \in 0..MaxSeq |-> [tag |-> hashTag(Content(n, q)), size |-> Len(Content(n, q))]]]

\* Every replacement of the file so far has carried a modification time of its
\* own: the time tells the versions apart. (The versions of a.txt have one size.)
TimeTellsVersion(n) == FileAt(n).mtime - InitFiles[n].mtime = FileAt(n).seq

\* The info has the tag and the size of the bytes of one version of the file.
InfoOfAVersion(n, info) ==
  \E q \in 0..MaxSeq : info.tag = TagsOfFile[n][q].tag /\ info.size = TagsOfFile[n][q].size

\* The outcome has the tag of the very bytes of the version it opened.
TagOfOpened(r) == r.info.tag = TagsOfFile[OnDisk(r)][r.ver].tag

\* C1 as stated: a GET or HEAD request whose path carries a tag other than the
\* tag resolved for the file is answered 404: no content is served and no
\* redirect is issued, with or without a trailing slash. Every 200 answer to a
\* tagged URL serves content whose tag is the tag of the URL.
TaggedUrlServesItsContent ==
  \A r \in Responses :
    /\ (r.tag # "" /\ r.via # "" /\ r.tag # r.info.tag) =>
         /\ r.status = 404
         /\ r.content = "" /\ r.body = ""
         /\ r.hdr.Location = Unset
    /\ (r.status = 200 /\ r.tag # "") => hashTag(r.content) = r.tag

\* C1, amended: a GET or HEAD request whose path carries a tag other than the tag
\* resolved for the file is answered 404: no content is served and no redirect
\* is issued, with or without a trailing slash. Every 200 answer to a tagged URL
\* carries the tag of the info resolved for the file, which is the tag of a
\* version of the file: of the content served when the info was read in this
\* call or every replacement carried a modification time of its own, of a
\* version of the same size and modification time otherwise.
TagMismatchIsNotFound ==
  \A r \in Responses :
    /\ (r.tag # "" /\ r.via # "" /\ r.tag # r.info.tag) =>
         /\ r.status = 404
         /\ r.content = "" /\ r.body = ""
         /\ r.hdr.Location = Unset
    /\ (r.status = 200 /\ r.tag # "") =>
         /\ r.tag = r.info.tag
         /\ r.content = Content(OnDisk(r), r.ver)
         /\ InfoOfAVersion(OnDisk(r), r.info)
         /\ (r.via = "recompute" \/ TimeTellsVersion(OnDisk(r))) => TagOfOpened(r)

\* A request with the tag of the first version and a trailing slash, answered 404
\* after the file was replaced.
StaleTagRefused ==
  \E r \in Responses :
    /\ r.req.url = "/a." \o TagOfSeq(0) \o ".txt/"
    /\ r.info.tag = TagOfSeq(1)
    /\ r.status = 404

\* A GET of the name a successful Tag call returned, for a file whose operations
\* do not fail and that stayed the same from the Tag call to the answer.
FollowedTags ==
  {r \in Responses : r.follow /\ r.since = r.fileSeq
                    /\ ~(WorldOf(world).faults /\ r.name \in Faulty)}

\* C2 as stated: the GET of the name Tag returned is answered 200 with the file's
\* content and the immutable Cache-Control, whatever the mode of the Server.
TaggedNameServedImmutable ==
  \A r \in FollowedTags :
    /\ r.status = 200
    /\ r.body = Content(OnDisk(r), r.fileSeq)
    /\ r.hdr.CacheControl = Immutable

\* C2, amended: the GET of the name Tag returned is answered 200 with the file's
\* content; its Cache-Control is the immutable one on a Server made by New and
\* "no-cache" on one made by NewNoCache. removeTag of Tag's result yields the
\* name and the tag again, and that tag is the one ServeHTTP resolves, unless a
\* replacement has kept the file's size and modification time and another call
\* has stored the info of another version between the two calls: the tag that
\* is resolved is then that of the other version, and the answer is 404.
TaggedNameServed ==
  /\ \A r \in FollowedTags :
       /\ r.status \in {200, 404}
       /\ r.status = 200 =>
            /\ r.body = Content(OnDisk(r), r.fileSeq)
            /\ r.hdr.CacheControl = IF noCache THEN "no-cache" ELSE Immutable
            /\ r.tag = r.info.tag
       /\ r.status = 404 =>
            /\ r.tag # r.info.tag
            /\ ~TimeTellsVersion(OnDisk(r))
            /\ Cardinality(WorldOf(world).clients) > 1
  /\ \A t \in TagResults :
       t.err = NoErr =>
         removeTag(IF HasPrefix(t.result, "/") THEN t.result ELSE "/" \o t.result)
           = <<t.info.tag, "/" \o t.name>>

\* On a Server made by New, the name Tag returned for the replaced file is served.
TaggedNameFollowed ==
  /\ ~noCache
  /\ \E r \in FollowedTags :
       r.since = 1 /\ r.status = 200 /\ r.hdr.CacheControl = Immutable

\* C3 as stated: while the writer replaces a.txt and clients run GET and Tag
\* calls concurrently, the ETag of every 200 answer is the tag of exactly the
\* bytes that answer serves, whether the info came from the cache or from a
\* recompute.
ETagOfServedBytes ==
  \A r \in Responses :
    r.status = 200 =>
      /\ r.via \in {"cache", "recompute"}
      /\ r.hdr.ETag = Quoted(hashTag(r.content))

\* C3, amended: while the writer replaces a.txt and clients run GET and Tag calls
\* concurrently, the body of every 200 answer is one whole version of the file
\* and its ETag is the tag of one version: of the version served when the info
\* came from a recompute, or from the cache and every replacement carried a
\* modification time of its own; otherwise of a version of the same size and
\* modification time, older or newer than the one served.
ETagOfOneVersion ==
  \A r \in Responses :
    r.status = 200 =>
      /\ r.via \in {"cache", "recompute"}
      /\ r.content = Content(OnDisk(r), r.ver)
      /\ r.hdr.ETag = Quoted(r.info.tag)
      /\ r.info.size = Len(r.content)
      /\ InfoOfAVersion(OnDisk(r), r.info)
      /\ (r.via = "recompute" \/ TimeTellsVersion(OnDisk(r))) => TagOfOpened(r)

\* A client is served the second version with the info the cache has of the
\* first, which the replacement has left with its size and modification time,
\* while the other client is in a call.
CachedVersionServed ==
  /\ world = "conc"
  /\ resp["c1"].kind = "GET" /\ resp["c1"].status = 200
  /\ resp["c1"].via = "cache"
  /\ resp["c1"].body = writeFileText(1)
  /\ resp["c1"].hdr.ETag = Quoted(TagOfSeq(0))
  /\ pr["c2"].pc # "idle"

\* C4: the sequence numbers one client reads from a.txt in successive GETs never
\* decrease, whatever the other client and the writer do in between.
SeqNeverDecreases == [][\A c \in Clients : lastSeq'[c] >= lastSeq[c]]_vars

\* A client that has read sequence number 1 is about to be answered again, with
\* the other client at work: the other client has since stored the info of the
\* version it had opened before the replacement, and the client has opened and
\* read the file anew.
SecondFetchAfterWrite ==
  /\ world = "conc"
  /\ lastSeq["c1"] = 1
  /\ pr["c1"].pc = "respond" /\ pr["c1"].ret = "serve" /\ pr["c1"].f.seq = 1
  /\ pr["c1"].via = "recompute"
  /\ pr["c2"].pc # "idle"

\* C5: an answer that ServeHTTP hands to http.ServeContent (200, 206, 304) carries
\* one Cache-Control value: "no-cache" on a NewNoCache server whatever the tag,
\* else "public, max-age=60" without a tag and the immutable value with a tag
\* equal to the resolved one. No other answer carries the immutable value.
CacheControlChosen ==
  \A r \in Responses :
    /\ r.status \in Delegated =>
         r.hdr.CacheControl =
           IF noCache THEN "no-cache"
           ELSE IF r.tag = "" THEN "public, max-age=60"
           ELSE Immutable
    /\ r.hdr.CacheControl = Immutable =>
         /\ ~noCache
         /\ r.status \in Delegated
         /\ r.tag # "" /\ r.tag = r.info.tag

\* A NewNoCache server answers a request with the right tag with "no-cache".
NoCacheOverridesTag ==
  /\ noCache
  /\ \E r \in Responses :
       r.status = 200 /\ r.tag # "" /\ r.hdr.CacheControl = "no-cache"

\* The answers to GET and HEAD requests.
Retrievals == {r \in Responses : r.req.method \in {"GET", "HEAD"}}

\* What a call that touches neither the file tree nor the cache leaves behind.
Untouched(r) == r.fsOps = 0 /\ r.opened = 0 /\ r.hashed = 0 /\ ~r.created /\ ~r.stored

\* C6: a request whose method is neither GET nor HEAD is answered 405 with
\* Allow: GET,HEAD, for every path, before anything else: the call does not touch
\* the file tree and does not change the cache.
OtherMethodsRefused ==
  \A r \in Responses :
    r.req.method \notin {"GET", "HEAD"} =>
      /\ r.status = 405
      /\ r.hdr.Allow = "GET,HEAD"
      /\ r.content = "" /\ r.body = ""
      /\ Untouched(r)

\* A POST to a name that is not there is answered 405, not 404.
PostRefused ==
  \E r \in Responses :
    r.req.method = "POST" /\ r.req.url = "/noexist.txt" /\ r.status = 405

\* C7: a GET or HEAD request whose path cleans to "/" is answered 404 without
\* touching the file tree and without changing the cache.
RootIsNotFound ==
  \A r \in Retrievals :
    Parsed(r.req).pth = "/" => r.status = 404 /\ Untouched(r)

\* A path that cleans to the root only after its dot-dot is resolved.
RootRefused ==
  \E r \in Retrievals : r.req.url = "/d/.." /\ r.status = 404 /\ Untouched(r)

\* C8 as stated: a GET or HEAD request whose canonical path, tag removed, names
\* a file that is not there or a directory is answered 404, with or without a
\* trailing slash, never 308.
MissingIsNotFound ==
  \A r \in Retrievals :
    (Parsed(r.req).pth # "/" /\ FileAt(Under(r.srv, Parsed(r.req).name)).kind \in {"absent", "dir"})
      => r.status = 404

\* C9 as stated: a GET or HEAD request whose path ends with a slash and names a
\* file (with the right tag if it has one) is answered 308 with a relative
\* Location; the client that follows it requests the same file without the
\* trailing slash, with the same query.
RedirectReachesFile ==
  \A r \in Retrievals :
    (/\ HasPrefix(r.req.url, "/") /\ HasSuffix(r.req.url, "/")
     /\ r.via # ""
     /\ ~TagMismatch(r.tag, r.info))
      => /\ r.status = 308
         /\ ~HasPrefix(r.hdr.Location, "/")
         /\ LET n == FollowRedirect(r.req, r.hdr.Location)
            IN  /\ ~HasSuffix(n.url, "/")
                /\ ParsePath(n).name = r.name
                /\ ParsePath(n).tag = r.tag
                /\ n.query = r.req.query

\* C10: a resolution that fails with another error than not-exist is answered
\* 500 with the body "500 Internal Server Error" and nothing of the path or the
\* error, never 403.
OtherErrorsAreInternal ==
  \A r \in Responses :
    r.err \notin {NoErr, ErrNotExist} =>
      /\ r.status = 500
      /\ r.msg = "500 Internal Server Error"
      /\ r.hdr = [NoHdr EXCEPT !.ContentType = "text/plain; charset=utf-8"]
      /\ r.content = "" /\ r.body = ""

\* A permission error of Open is answered 500.
PermissionErrorIsInternal ==
  \E r \in Responses : r.err = ErrPermission /\ r.status = 500

\* C11 as stated: every answer handed to http.ServeContent (200, 206, 304), on
\* servers made by New and by NewNoCache, with or without a tag in the request,
\* carries as ETag the double-quoted tag of the info resolved for the request,
\* and that tag is the tag of the digest of the content of the file that was
\* opened.
ETagIsTagOfContent ==
  \A r \in Responses :
    r.status \in Delegated =>
      /\ r.hdr.ETag = Quoted(r.info.tag)
      /\ r.info.tag = hashTag(Content(OnDisk(r), r.ver))

\* C11, amended: every answer handed to http.ServeContent (200, 206, 304), on
\* servers made by New and by NewNoCache, with or without a tag in the request,
\* carries as ETag the double-quoted tag of the info resolved for the request.
\* That tag is the tag of the digest of the content that was read when the info
\* was made: the content of the file that was opened when the info was read in
\* this call or every replacement carried a modification time of its own, the
\* content of a version of the same size and modification time otherwise.
ETagIsResolvedTag ==
  \A r \in Responses :
    r.status \in Delegated =>
      /\ r.hdr.ETag = Quoted(r.info.tag)
      /\ InfoOfAVersion(OnDisk(r), r.info)
      /\ (r.via = "recompute" \/ TimeTellsVersion(OnDisk(r))) => TagOfOpened(r)

\* A NewNoCache server answers a range request with the right tag with 206 and
\* the ETag of the file.
PartialContentHasETag ==
  /\ noCache
  /\ \E r \in Responses :
       r.status = 206 /\ r.tag # "" /\ r.hdr.ETag = Quoted(AjsTag) /\ r.body = "ajs\n"

\* The answers to GET requests with an If-None-Match header for which ServeHTTP
\* reached http.ServeContent.
Revalidations ==
  {r \in Responses : r.req.method = "GET" /\ r.req.inm # "" /\ r.status \in Delegated}

\* The Cache-Control of the request without conditions.
Unconditional(r) ==
  IF noCache THEN "no-cache" ELSE IF r.tag = "" THEN "public, max-age=60" ELSE Immutable

\* C12 as stated: a GET with If-None-Match equal to the file's current quoted tag
\* is answered 304 with the Cache-Control of the unconditional request; with any
\* other If-None-Match it is answered 200 with the full body and the current ETag.
NotModifiedIffSameTag ==
  \A r \in Revalidations :
    IF r.req.inm = Quoted(r.info.tag)
    THEN r.status = 304 /\ r.body = "" /\ r.hdr.CacheControl = Unconditional(r)
    ELSE /\ r.status = 200
         /\ r.body = Content(OnDisk(r), r.ver)
         /\ r.hdr.ETag = Quoted(hashTag(r.body))

\* C12, amended: the answer is 304, with the Cache-Control of the unconditional
\* request and the ETag of the resolved tag, when If-None-Match is "*" or is the
\* quoted tag resolved for the file, with or without the weak prefix W/; with
\* another entity tag it is 200 with the full body and the ETag of the resolved
\* tag. The resolved tag is the tag of the content that was opened when the info
\* was read in this call or every replacement carried a modification time of
\* its own.
NotModifiedIffTagMatches ==
  \A r \in Revalidations :
    LET inm == r.req.inm
        strong == IF HasPrefix(inm, "W/") THEN SliceFrom(inm, 2) ELSE inm
    IN  IF inm = "*" \/ strong = Quoted(r.info.tag)
        THEN /\ r.status = 304 /\ r.body = ""
             /\ r.hdr.CacheControl = Unconditional(r)
             /\ r.hdr.ETag = Quoted(r.info.tag)
        ELSE /\ r.status = 200
             /\ r.body = Content(OnDisk(r), r.ver)
             /\ r.hdr.ETag = Quoted(r.info.tag)
             /\ (r.via = "recompute" \/ TimeTellsVersion(OnDisk(r))) => TagOfOpened(r)

\* The tag of the first version no longer validates after the file was replaced.
RevalidationAfterChange ==
  \E r \in Revalidations :
    /\ r.req.inm = Quoted(TagOfSeq(0))
    /\ r.status = 200 /\ r.body = writeFileText(1)
    /\ r.hdr.ETag = Quoted(TagOfSeq(1))

\* C13 as stated: whatever the answer, a Content-Type the caller has set on the
\* response is the Content-Type of the answer.
CallerContentTypeKept ==
  \A r \in Responses : r.req.wct # "" => r.hdr.ContentType = r.req.wct

\* C13, amended: on an answer with content (200, 206) and on a redirect (308) a
\* Content-Type the caller has set is left as it is; with none set, an answer
\* with content carries the info's content type (which readInfo never leaves
\* empty; an empty one would become an empty header entry). The answers written
\* by http.Error carry text/plain, and 304 carries no Content-Type, whatever the
\* caller has set.
ContentTypeOfAnswer ==
  \A r \in Responses :
    /\ r.status \in {200, 206} =>
         /\ r.info.contentType # ""
         /\ r.hdr.ContentType = IF r.req.wct # "" THEN r.req.wct ELSE r.info.contentType
    /\ r.status = 308 =>
         r.hdr.ContentType = IF r.req.wct # "" THEN r.req.wct ELSE Unset
    /\ r.status \in {404, 405, 500} => r.hdr.ContentType = "text/plain; charset=utf-8"
    /\ r.status = 304 => r.hdr.ContentType = Unset

\* A file is served with the Content-Type its caller chose.
CallerContentTypeServed ==
  \E r \in Responses :
    /\ r.status = 200 /\ r.req.wct = "application/x-asset"
    /\ r.hdr.ContentType = "application/x-asset"
    /\ r.info.contentType = "text/javascript; charset=utf-8"

\* C14: for every file name (without extension, with one, with several) and every
\* tag, with or without a leading slash, removeTag of the name Tag builds from
\* them returns that tag and that name.
RemoveTagInvertsTag ==
  resp["c2"].kind = "removeTag" =>
    /\ resp["c2"].tag = resp["c1"].info.tag
    /\ resp["c2"].name = resp["c1"].req.url

\* The tag is found again in a name with two extensions below a directory whose
\* name has a dot.
CompoundNameRecovered ==
  /\ resp["c2"].kind = "removeTag"
  /\ resp["c2"].pth = "/d.v2/lib." \o StyleTag \o ".min.js"
  /\ resp["c2"].tag = StyleTag
  /\ resp["c2"].name = "/d.v2/lib.min.js"

\* The index of the first dot of the base name of a name; the length of the name
\* when its base name has no dot.
FirstDotOfBase(name) ==
  LET slash == LastIndexByte(name, "/")
      dot == IndexFrom(name, ".", slash + 1)
  IN  IF dot < 0 THEN Len(name) ELSE dot

\* C15: a Tag call that succeeds returns the name it was given with "." and the
\* tag of the file's content placed right before the first dot of the base name,
\* or at the end when the base name has no dot: directory and extensions stay
\* as they are. The file is looked up without the leading slash, and the result
\* of Tag("/" + p) is "/" followed by what Tag(p) returns.
TagBeforeFirstDot ==
  \A t \in TagResults :
    t.err = NoErr =>
      LET given == t.req.url
          k == FirstDotOfBase(given)
          bare == t.name
          kb == FirstDotOfBase(bare)
          onBare == Slice(bare, 0, kb) \o "." \o t.info.tag \o SliceFrom(bare, kb)
      IN  /\ \E q \in 0..MaxSeq : t.info.tag = hashTag(Content(OnDisk(t), q))
          /\ t.result = Slice(given, 0, k) \o "." \o t.info.tag \o SliceFrom(given, k)
          /\ bare = (IF HasPrefix(given, "/") THEN SliceFrom(given, 1) ELSE given)
          /\ t.result = (IF HasPrefix(given, "/") THEN "/" \o onBare ELSE onBare)

\* Tag of a name with a leading slash, in a directory.
SlashNameTagged ==
  \E t \in TagResults :
    /\ t.req.url = "/d/style.css" /\ t.name = "d/style.css"
    /\ t.result = "/d/style." \o StyleTag \o ".css"

\* The outcomes that report a tag: the names Tag returned and the answers with
\* an ETag set by ServeHTTP.
Reporting ==
  {r \in {resp[c] : c \in Clients} :
     \/ r.kind = "Tag" /\ r.err = NoErr
     \/ r.kind = "GET" /\ r.status \in Delegated}

\* The tag an outcome reports: what follows the first dot of the base name of
\* the name Tag returned, or what the quotes of the ETag enclose.
Reported(r) ==
  IF r.kind = "Tag"
  THEN LET k == FirstDotOfBase(r.req.url) IN Slice(r.result, k + 1, k + 1 + tagLen)
  ELSE Slice(r.hdr.ETag, 1, Len(r.hdr.ETag) - 1)

\* The outcomes that report a tag for a file the call has opened.
ReportingOpened == {r \in Reporting : r.ver >= 0}

\* The bytes of the version of the file the call has opened.
BytesOf(r) == Content(OnDisk(r), r.ver)

\* C16 as stated: the tag reported by Tag and in ETag is the tag of the digest of
\* the bytes the file has at the call and of nothing else: two outcomes for the
\* same bytes report the same tag, whatever the names and modification times of
\* the files and whichever Server, with whatever cache and history, reports it.
TagOfContentOnly ==
  \A r1 \in ReportingOpened :
    /\ Reported(r1) = hashTag(BytesOf(r1))
    /\ \A r2 \in ReportingOpened :
         BytesOf(r1) = BytesOf(r2) => Reported(r1) = Reported(r2)

\* The bytes of the version of the file that the info of an outcome describes,
\* when every replacement carried a modification time of its own: the version
\* with the info's modification time.
ContentOf(r) == Content(OnDisk(r), r.info.mtime - InitFiles[OnDisk(r)].mtime)

\* The outcomes that report a tag for a file whose modification time tells its
\* versions apart.
ReportingTold == {r \in Reporting : TimeTellsVersion(OnDisk(r))}

\* C16, amended: the tag reported by Tag and in ETag is the tag of the digest of
\* the bytes of one version of the file and of nothing else, neither name nor
\* modification time nor Server: of the bytes the file has at the call when the
\* info was read in this call or every replacement carried a modification time
\* of its own, and then two outcomes for the same bytes report the same tag,
\* whichever Server, with whatever cache and history, reports it; of the bytes
\* of a version of the same size and modification time otherwise.
TagOfBytesRead ==
  /\ \A r \in Reporting :
       /\ Reported(r) = r.info.tag
       /\ InfoOfAVersion(OnDisk(r), r.info)
       /\ r.via = "recompute" => Reported(r) = hashTag(BytesOf(r))
  /\ \A r1 \in ReportingTold :
       /\ Reported(r1) = hashTag(ContentOf(r1))
       /\ r1.ver >= 0 => BytesOf(r1) = ContentOf(r1)
       /\ r1.status = 200 => r1.content = ContentOf(r1)
       /\ \A r2 \in ReportingTold :
            ContentOf(r1) = ContentOf(r2) => Reported(r1) = Reported(r2)

\* Two Servers report one tag for the same bytes under two names with two
\* modification times, one from a recompute and one from its cache.
SameBytesSameTag ==
  /\ resp["c1"].srv = "s1" /\ resp["c2"].srv = "s2"
  /\ resp["c1"] \in Reporting /\ resp["c2"] \in Reporting
  /\ resp["c1"].name = "copy.css" /\ resp["c2"].name = "style.css"
  /\ resp["c1"].info.mtime # resp["c2"].info.mtime
  /\ resp["c1"].kind = "GET" /\ resp["c2"].kind = "Tag"
  /\ resp["c1"].via = "recompute" /\ resp["c2"].via = "cache"
  /\ Reported(resp["c1"]) = StyleTag /\ Reported(resp["c2"]) = StyleTag

\* The outcomes of the calls whose info came from the cache.
FromCache == {r \in {resp[c] : c \in Clients} : r.via = "cache"}

\* C17 as stated: a call that finds the cached info current has not opened the
\* file.
CachedInfoWithoutOpen ==
  \A r \in FromCache : r.opened = 0 /\ r.hashed = 0 /\ ~r.stored

\* A Tag call at the comparison of tryCachedInfo, with a holder whose info has
\* the size and the modification time of the stat of the path.
TagHit(c) ==
  /\ pr[c].pc = "tload"
  /\ InfoMatches(pr[c].fi, holders[pr[c].p])

\* C17, amended: a call that finds the cached info current returns it without
\* reading or hashing the file and without writing the holder. Tag, which asks
\* tryCachedInfo first, then returns after its one stat of the path: it opens
\* nothing and leaves files, cache and holders as they are. ServeHTTP, and a Tag
\* whose first look found nothing current, go through openWithInfo, which has
\* opened the file before it looks at the cache.
CachedInfoWithoutRead ==
  /\ [](\A r \in FromCache :
          /\ r.hashed = 0 /\ ~r.stored
          /\ InfoOfAVersion(OnDisk(r), r.info)
          /\ r.kind = "GET" => r.opened = 1 /\ r.fsOps = 1
          /\ r.kind = "Tag" => \/ r.opened = 0 /\ r.fsOps = 1 /\ ~r.created /\ r.closed = 0
                               \/ r.opened = 1 /\ r.fsOps = 2 /\ r.closed = 1)
  /\ [][\A c \in Clients :
          (TagHit(c) /\ pr'[c] # pr[c]) =>
            /\ pr'[c].pc = "tagret"
            /\ pr'[c].info = holders[pr[c].p]
            /\ pr'[c].fsOps = 1 /\ pr'[c].opened = 0 /\ pr'[c].hashed = 0
            /\ ~pr'[c].created /\ ~pr'[c].stored
            /\ UNCHANGED <<files, cache, holders, mu>>]_vars
  /\ [](\A c \in Clients :
          (pr[c].pc = "tagret" /\ pr[c].opened = 0) =>
            pr[c].via = "cache" /\ pr[c].fsOps = 1 /\ pr[c].hashed = 0 /\ ~pr[c].stored)

\* Tag returns the name with the tag of the second version from the cache, after
\* one stat.
TagFromCacheAfterStat ==
  \E t \in TagResults :
    /\ t.via = "cache" /\ t.err = NoErr
    /\ t.fsOps = 1 /\ t.opened = 0 /\ t.hashed = 0 /\ ~t.stored /\ ~t.created
    /\ t.result = "a." \o TagOfSeq(1) \o ".txt"

\* C18: no step of any ServeHTTP or Tag call, and no change of the files, takes a
\* key out of a Server's cache or puts another holder under a key: the keys only
\* grow, also when the file is removed, becomes a directory, or a later
\* resolution fails.
CacheKeysOnlyGrow ==
  [][\A s \in Servers :
       \A k \in DOMAIN cache[s] :
         k \in DOMAIN cache'[s] /\ cache'[s][k] = cache[s][k]]_vars

\* The key of a.txt is in the cache, the file has become a directory, and the
\* request for it has just been answered 404.
KeyOutlivesFile ==
  /\ "a.txt" \in DOMAIN cache["s1"]
  /\ ~holders[cache["s1"]["a.txt"]].nil
  /\ files["a.txt"].kind = "dir"
  /\ resp["c1"].kind = "GET" /\ resp["c1"].name = "a.txt" /\ resp["c1"].status = 404

\* The canonical form of a request path: the path made absolute and cleaned.
Canonical(u) == Clean(IF HasPrefix(u, "/") THEN u ELSE "/" \o u)

\* The canonical forms and cache keys of the paths the clients request, computed
\* once.
CanonicalRepertoire ==
  [u \in {q.url : q \in {p \in DOMAIN ParsedRepertoire : p.prefix = ""}} |->
     [path |-> Canonical(u), key |-> SliceFrom(removeTag(Canonical(u))[2], 1)]]

CanonicalOf(u) ==
  IF u \in DOMAIN CanonicalRepertoire THEN CanonicalRepertoire[u]
  ELSE [path |-> Canonical(u), key |-> SliceFrom(removeTag(Canonical(u))[2], 1)]

\* Two GET requests that differ at most in the spelling of a path without a
\* trailing slash.
SamePathRespelled(q1, q2) ==
  /\ q1.method = "GET" /\ q2.method = "GET"
  /\ ~HasSuffix(q1.url, "/") /\ ~HasSuffix(q2.url, "/")
  /\ q1.prefix = "" /\ q2.prefix = ""
  /\ CanonicalOf(q1.url).path = CanonicalOf(q2.url).path
  /\ [q1 EXCEPT !.url = ""] = [q2 EXCEPT !.url = ""]

\* C19: two GET requests to one Server whose paths, without a trailing slash,
\* have the same canonical form are answered alike (status, headers, body) as
\* long as the file and the info resolved for it are the same, and are resolved
\* under one cache key.
SameCanonicalSameAnswer ==
  \A r1, r2 \in Responses :
    (/\ r1.srv = r2.srv /\ SamePathRespelled(r1.req, r2.req)
     /\ r1.ver = r2.ver /\ r1.info = r2.info) =>
      /\ r1.status = r2.status /\ r1.hdr = r2.hdr /\ r1.body = r2.body
      /\ r1.name = r2.name /\ r1.tag = r2.tag
      /\ r1.via # "" => r1.name \in DOMAIN cache[r1.srv]
      /\ r1.name = CanonicalOf(r1.req.url).key

\* A path with a dot-dot element and one without a leading slash are both
\* answered with the file, under the one key the cache has.
RespelledPathsServed ==
  /\ resp["c1"].req.url = "/d/x/../style.css" /\ resp["c2"].req.url = "d/style.css"
  /\ resp["c1"].status = 200 /\ resp["c2"].status = 200
  /\ resp["c1"].body = "style\n"
  /\ DOMAIN cache["s1"] = {"d/style.css"}

\* The tag of the first tree's style.css.
ResetTag == hashTag("reset\n")

\* C20: a Server's cache is its own. Every info in the cache of a Server
\* describes a version of the file of that name in the Server's own tree, no
\* holder is in the caches of two Servers, and every call returns an info of the
\* file in the tree of the Server that was called: two Servers whose trees hold
\* different files under one path never hand out each other's info.
CacheOfOwnServer ==
  /\ \A s \in Servers :
       \A k \in DOMAIN cache[s] :
         LET info == holders[cache[s][k]]
         IN  /\ info.nil \/ \E q \in 0..MaxSeq :
                              /\ info.tag = TagsOfFile[Under(s, k)][q].tag
                              /\ info.size = TagsOfFile[Under(s, k)][q].size
             /\ \A s2 \in Servers \ {s} :
                  \A k2 \in DOMAIN cache[s2] : cache[s2][k2] # cache[s][k]
  /\ \A c \in Clients :
       (resp[c].via # "") =>
         /\ resp[c].srv = WorldOf(world).server[c]
         /\ InfoOfAVersion(OnDisk(resp[c]), resp[c].info)
         /\ resp[c].status = 200 =>
              /\ resp[c].content = BytesOf(resp[c])
              /\ resp[c].hdr.ETag = Quoted(resp[c].info.tag)

\* Each of the two Servers has answered the request for style.css from its cache
\* with the file of its own tree.
EachServesOwnStyle ==
  /\ resp["c1"].srv = "s1" /\ resp["c2"].srv = "s2"
  /\ resp["c1"].req.url = "/style.css" /\ resp["c2"].req.url = "/style.css"
  /\ resp["c1"].via = "cache" /\ resp["c2"].via = "cache"
  /\ resp["c1"].status = 200 /\ resp["c2"].status = 200
  /\ resp["c1"].body = "reset\n" /\ resp["c2"].body = "style\n"
  /\ resp["c1"].hdr.ETag = Quoted(ResetTag) /\ resp["c2"].hdr.ETag = Quoted(StyleTag)
  /\ resp["c1"].info.size = resp["c2"].info.size
  /\ resp["c1"].info.mtime = resp["c2"].info.mtime

\* The paths removeTag has taken apart: those Tag built and those given as such.
Removed == IF resp["c2"].kind \in {"removeTag", "path"} THEN {resp["c2"]} ELSE {}

\* C21 as stated: removeTag tries the last dot-delimited segment of the base name
\* as a tag, then the one before it, and else returns the empty tag and the path.
LastSegmentsTried ==
  \A r \in Removed : <<r.tag, r.name>> = removeTagLastDot(r.pth)

\* C21, amended: removeTag looks at the base name only. It tries all that follows
\* the first dot of the base name as a tag, and then the segment between the
\* first and the second dot; the name it returns is the path without the dot and
\* the tag. Without a dot, or when neither is a tag, it returns the empty tag and
\* the path as it is.
FirstSegmentsTried ==
  \A r \in Removed :
    LET s == r.pth
        k == FirstDotOfBase(s)
        rest == SliceFrom(s, k + 1)
        j == IndexByte(rest, ".")
    IN  IF k = Len(s) THEN r.tag = "" /\ r.name = s
        ELSE IF isTag(rest) THEN r.tag = rest /\ r.name = Clean(Slice(s, 0, k))
        ELSE IF j >= 0 /\ isTag(Slice(rest, 0, j))
             THEN r.tag = Slice(rest, 0, j)
                  /\ r.name = Slice(s, 0, k) \o SliceFrom(rest, j)
        ELSE r.tag = "" /\ r.name = s

\* A tag that follows the extension is not found.
TagAfterExtensionKept ==
  /\ resp["c2"].kind = "path"
  /\ resp["c2"].pth = "/a.js.abcABC1234"
  /\ resp["c2"].tag = "" /\ resp["c2"].name = "/a.js.abcABC1234"

\* The digits and the letters of both cases.
Alnum ==
  LET chars == "0123456789" \o "abcdefghijklmnopqrstuvwxyz" \o "ABCDEFGHIJKLMNOPQRSTUVWXYZ"
  IN  {SubSeq(chars, i, i) : i \in 1..Len(chars)}

\* Ten characters, each a digit or a letter.
TagShaped(s) == Len(s) = 10 /\ \A i \in 1..Len(s) : SubSeq(s, i, i) \in Alnum

\* What removeTag may take for a tag in a path: all that follows the first dot
\* of the base name, and what stands between its first and second dot.
Candidates(s) ==
  LET k == FirstDotOfBase(s)
      rest == SliceFrom(s, k + 1)
      j == IndexByte(rest, ".")
  IN  IF k = Len(s) THEN {}
      ELSE IF j < 0 THEN {rest} ELSE {rest, Slice(rest, 0, j)}

\* C22: isTag holds of a segment exactly when it has ten characters, all of them
\* digits or letters. With a segment of 8 or 11 characters, or one with another
\* character such as "_", and no other tag, removeTag returns the empty tag and
\* the path it was given; the path alone determines its result.
OnlyTagShapedIsTag ==
  \A r \in Removed :
    /\ \A seg \in Candidates(r.pth) : isTag(seg) <=> TagShaped(seg)
    /\ r.tag # "" => TagShaped(r.tag) /\ r.tag \in Candidates(r.pth)
    /\ (\A seg \in Candidates(r.pth) : ~TagShaped(seg)) => r.tag = "" /\ r.name = r.pth
    /\ files = InitFiles /\ \A sv \in Servers : cache[sv] = <<>>

\* Segments of 8 and of 11 characters and one with an underscore are no tags.
ShortLongAndUnderscore ==
  /\ resp["c2"].kind = "path"
  /\ resp["c2"].pth \in {"a.12312312.js", "d/style.abcABC12345.css", "d/sub/noext.xyzXYZ_xyz"}
  /\ resp["c2"].tag = "" /\ resp["c2"].name = resp["c2"].pth

\* The index of a character in the alphabet of 62: the digit it stands for.
DigitOf(ch) == CHOOSE i \in 0..61 : SubSeq(alphabet62, i + 1, i + 1) = ch

\* n * 62 + add for a big-endian base-256 numeral n, done from its last byte on;
\* the carry out of the first byte is put in front.
RECURSIVE MulAdd62(_, _)
MulAdd62(n, add) ==
  IF Len(n) = 0 THEN IF add = 0 THEN <<>> ELSE <<add>>
  ELSE LET cur == n[Len(n)] * 62 + add
       IN  Append(MulAdd62(SubSeq(n, 1, Len(n) - 1), cur \div 256), cur % 256)

\* The number whose base-62 digits, lowest first, are those of tag from position
\* i on, above which the digits of the numeral q follow.
RECURSIVE Decoded(_, _, _)
Decoded(tag, i, q) ==
  IF i > Len(tag) THEN q
  ELSE MulAdd62(Decoded(tag, i + 1, q), DigitOf(SubSeq(tag, i, i)))

\* C23: for every digest, makeTag returns ten characters of the alphabet of 62:
\* the remainders, in the order they arise, of ten successive divisions by 62 of
\* the number that the first eight bytes make, read as an unsigned big-endian
\* integer; digits of value zero are written as "0", none is dropped. So isTag
\* holds of every tag, and the bytes after the eighth have no part in it.
TagIsTenDigitsOfEightBytes ==
  resp["c1"].kind = "makeTag" =>
    LET tag == resp["c1"].tag
        n == SubSeq(sum, 1, 8)
    IN  /\ Len(tag) = 10
        /\ \A i \in 1..Len(tag) : SubSeq(tag, i, i) \in Alnum
        /\ isTag(tag)
        /\ \E q \in 0..21 : Decoded(tag, 1, <<0, 0, 0, 0, 0, 0, 0, q>>) = n
        /\ tag = makeTag(n \o <<255, 255>>)

\* The number 62 is written with the digits 0 and 1 and eight more zeros, and a
\* ninth byte that is not zero changes nothing.
ZeroDigitsWritten ==
  /\ resp["c1"].kind = "makeTag"
  /\ sum = <<0, 0, 0, 0, 0, 0, 0, 62, 7, 0>>
  /\ resp["c1"].tag = "0100000000"

\* The calls to which tryCachedInfo or openWithInfo has just returned an info.
Resolved == {c \in Clients : pr[c].pc \in {"respond", "tagret"}}

\* C24: the info a resolution returns records the size and the modification
\* time of the stat that same call took: of the path in tryCachedInfo, of the
\* opened handle in openWithInfo. A cached info that records another size or
\* time is not returned but recomputed, also when a slow resolver has put an
\* older info in the holder after a newer one had been there.
ReturnedInfoMatchesOwnStat ==
  /\ \A c \in Resolved :
       /\ ~pr[c].info.nil
       /\ pr[c].info.size = pr[c].fi.size
       /\ pr[c].info.mtime = pr[c].fi.mtime
  /\ \A c \in Clients :
       pr[c].pc = "readInfo" => ~InfoMatches(pr[c].fi, pr[c].info)

\* A client that was served version 1 before opens version 1 again and finds in
\* the holder the info of version 0, which a slower resolver has stored since;
\* it does not return that info but goes on to read the file.
OlderInfoNotReturned ==
  \E c \in Clients :
    /\ pr[c].pc = "readInfo"
    /\ pr[c].f.seq = 1 /\ lastSeq[c] = 1
    /\ ~pr[c].info.nil /\ pr[c].info.mtime < pr[c].fi.mtime

\* The outcomes of the calls whose resolution failed.
Failed == {r \in {resp[c] : c \in Clients} : r.err # NoErr}

\* C25: a request whose resolution fails ends with the error response alone, 404
\* or 500 with the message of the error: no content of the file, no ETag and no
\* Cache-Control, whatever info the cache has kept for the name; a Tag call
\* whose resolution fails returns the error and no name.
FailureGivesErrorOnly ==
  \A r \in Failed :
    IF r.kind = "GET"
    THEN /\ r.status = IF r.err = ErrNotExist THEN 404 ELSE 500
         /\ r.msg = IF r.err = ErrNotExist THEN "404 page not found"
                    ELSE "500 Internal Server Error"
         /\ r.hdr.ETag = Unset /\ r.hdr.CacheControl = Unset
         /\ r.hdr.Location = Unset
         /\ r.content = "" /\ r.body = ""
    ELSE r.kind = "Tag" /\ r.result = ""

\* A request fails for a name whose info is in the cache.
FailureWithCachedInfo ==
  \E r \in Failed : r.kind = "GET" /\ ~CachedInfo(r).nil

\* A Tag call fails for a name whose info is in the cache.
TagFailureWithCachedInfo ==
  \E r \in Failed : r.kind = "Tag" /\ ~CachedInfo(r).nil

\* The calls that have a holder in hand: taken from the map or inserted.
Holding == {c \in Clients : pr[c].p # NoHolder}

\* C26: however the first resolutions of a path interleave, one holder is made
\* for it: every holder that was ever made is the one the map of its Server has
\* for its name, and every call loads from and stores to the holder in the map.
OneHolderPerName ==
  /\ \A id \in DOMAIN holders :
       \E s \in Servers : id[1] \in DOMAIN cache[s] /\ cache[s][id[1]] = id
  /\ \A c \in Holding :
       /\ pr[c].name \in DOMAIN cache[cacheOf(pr[c].srv)]
       /\ pr[c].p = cache[cacheOf(pr[c].srv)][pr[c].name]
  /\ \A c, d \in Holding :
       pr[c].srv = pr[d].srv /\ pr[c].name = pr[d].name => pr[c].p = pr[d].p

\* Two first resolutions of one name both missed the holder under the shared
\* lock; one has inserted it, and the other, now under the exclusive lock, has
\* found it there and inserts none.
SecondLookFindsHolder ==
  \E c, d \in Clients :
    /\ c # d
    /\ pr[c].created /\ pr[c].pc \in {"load", "readInfo", "seek", "store"}
    /\ pr[d].pc = "unlock" /\ ~pr[d].created
    /\ pr[d].name = pr[c].name /\ pr[d].p = pr[c].p

\* The steps of a call that touch the file tree or the value of a holder:
\* Open, Stat, reading and hashing, Seek, Load and Store; and those before a
\* call and after its resolution.
OutsideLock ==
  {"idle", "open", "stat", "tstat", "load", "tload", "readInfo", "seek", "store",
   "respond", "tagret"}

\* The calls that hold the lock of a Server's map, shared or exclusive.
LockHolders(s) == mu[s].readers \cup (IF mu[s].writer = "" THEN {} ELSE {mu[s].writer})

\* C27: a call holds the lock of the map, shared or exclusive, only between the
\* look into the map and the release that follows it: never while it opens,
\* stats, reads, hashes or seeks a file, nor while it loads or stores the value
\* of a holder. So whoever waits for the lock waits for no call that is busy
\* with a file.
NoLockAcrossIO ==
  \A s \in Servers :
    /\ \A c \in mu[s].readers : pr[c].srv = s /\ pr[c].pc \in {"runlock", "trunlock"}
    /\ mu[s].writer # "" => pr[mu[s].writer].srv = s /\ pr[mu[s].writer].pc = "unlock"
    /\ \A c \in Clients : pr[c].pc \in OutsideLock => c \notin LockHolders(s)

\* One call is reading and hashing a file while another call of the same Server
\* holds the exclusive lock of the map.
LockTakenDuringRead ==
  \E c, d \in Clients :
    /\ pr[c].pc = "readInfo" /\ pr[d].pc = "unlock"
    /\ pr[c].srv = pr[d].srv /\ mu[pr[d].srv].writer = d

\* What readInfo computes from a handle of each version of each file on disk,
\* for each modification time the version may carry: that of the first version
\* and one tick more for some of the replacements.
InfosOfFile ==
  [n \in {m \in DOMAIN InitFiles : InitFiles[m].kind = "file"} |->
     [q \in 0..MaxSeq |->
        [ticks \in 0..q |->
           readInfo([valid |-> TRUE, name |-> n, isDir |-> FALSE, seq |-> q,
                     size |-> SizeOf(n, q), mtime |-> InitFiles[n].mtime + ticks,
                     pos |-> 0])]]]

\* The calls to which openWithInfo has returned the info it read itself.
Recomputed == {c \in Resolved : pr[c].via = "recompute"}

\* C28: resolutions that find the cache stale at the same time each read the
\* file and each store their info. The holder has nothing or one whole info, as
\* one readInfo made it of one version of the file: size, time, tag and content
\* type are never of different versions. Each resolver returns the info it read
\* from its own handle, whichever store came last.
HolderHasOneWholeInfo ==
  /\ \A id \in DOMAIN holders :
       \/ holders[id] = NilInfo
       \/ \E s \in Servers, q \in 0..MaxSeq :
            /\ id[1] \in DOMAIN cache[s] /\ cache[s][id[1]] = id
            /\ \E ticks \in 0..q : holders[id] = InfosOfFile[Under(s, id[1])][q][ticks]
  /\ \A c \in Recomputed :
       LET f == pr[c].f
       IN  pr[c].info = InfosOfFile[f.name][f.seq][f.mtime - InitFiles[f.name].mtime]

\* Two resolvers found the holder stale and read different versions; both have
\* stored and returned, each with its own info, and the holder has the info of
\* the version read first, stored last.
LastStoreWins ==
  \E c, d \in Recomputed :
    /\ pr[c].pc = "respond" /\ pr[d].pc = "respond"
    /\ pr[c].p = pr[d].p
    /\ pr[c].f.seq < pr[d].f.seq
    /\ holders[pr[c].p] = pr[c].info /\ pr[c].info # pr[d].info

\* C29: the handle a successful openWithInfo returns is at offset 0. When the
\* info came from the cache the handle was never read; when the info was read
\* from the handle, the handle is at its end after the reading, and is back at 0
\* before the info is stored. The body of every whole answer is the whole
\* content of the version that was opened.
HandleReturnedAtStart ==
  /\ \A c \in Clients :
       LET l == pr[c]
       IN  /\ l.pc \in {"respond", "tagret"} /\ l.f.valid =>
                /\ l.f.pos = 0
                /\ l.via = "cache" => l.hashed = 0
                /\ l.via = "recompute" => l.hashed = 1 /\ l.stored
           /\ l.pc = "seek" => l.f.pos = l.f.size /\ ~l.stored
           /\ l.pc = "store" => l.f.pos = 0 /\ ~l.stored
  /\ \A c \in Clients :
       LET r == resp[c]
       IN  r.kind = "GET" /\ r.status = 200 /\ r.req.method = "GET" =>
             /\ r.body = Content(OnDisk(r), r.ver)
             /\ Len(r.body) = r.info.size

\* One call has read a file to its end and returned the handle rewound; another
\* has got the info from the cache and returned a handle it has not read.
HandleRewoundAfterHashing ==
  \E c, d \in Clients :
    /\ pr[c].pc = "respond" /\ pr[c].via = "recompute"
    /\ pr[c].hashed = 1 /\ pr[c].f.size > 0 /\ pr[c].f.pos = 0
    /\ pr[d].pc = "respond" /\ pr[d].via = "cache" /\ pr[d].f.pos = 0

\* The content type of each version of each file on disk: by its extension, else
\* by its first bytes, 512 at most.
TypesOfFile ==
  [n \in {m \in DOMAIN InitFiles : InitFiles[m].kind = "file"} |->
     [q \in 0..MaxSeq |->
        LET text == Content(n, q)
        IN  IF TypeByExtension(Ext(n)) # "" THEN TypeByExtension(Ext(n))
            ELSE DetectContentType(IF Len(text) > 512 THEN Slice(text, 0, 512) ELSE text)]]

\* The calls that have an info readInfo has just made or openWithInfo returned.
HavingRead == {c \in Clients : pr[c].pc \in {"seek", "store"}} \cup Recomputed

\* C30: the tag readInfo computes is the tag of the whole content of the file,
\* with a type by extension and without, whether the file is shorter than the
\* 512 bytes of the sniff buffer, exactly as long, or longer; the content type
\* of a file without a type by extension is that of its first 512 bytes at
\* most, whatever follows them.
WholeContentHashed ==
  \A c \in HavingRead :
    LET l == pr[c]
    IN  /\ l.info.tag = TagsOfFile[l.f.name][l.f.seq].tag
        /\ l.info.size = TagsOfFile[l.f.name][l.f.seq].size
        /\ l.info.contentType = TypesOfFile[l.f.name][l.f.seq]

\* The info the cache of the first Server has for a name; NilInfo if none.
InfoOfName(name) == CachedInfo([srv |-> "s1", name |-> name])

\* The cache has the infos of a script and a document of 600 bytes, a text of
\* 512, a document of 16, and a file of 526 in whose first 512 bytes no document
\* begins, each with the tag of all its bytes; the last has just been read.
LargeFilesHashed ==
  /\ world = "large"
  /\ InfoOfName("d/big.js").tag = hashTag(LargeScript)
  /\ InfoOfName("d/f").tag = hashTag(LargeText)
  /\ InfoOfName("d/f").contentType = "text/html; charset=utf-8"
  /\ InfoOfName("d/f512").tag = hashTag(ExactText)
  /\ InfoOfName("d/sub/noext").tag = hashTag("<!doctype html>\n")
  /\ InfoOfName("d/padded").tag = hashTag(PaddedText)
  /\ InfoOfName("d/padded").contentType = "text/plain; charset=utf-8"
  /\ pr["c1"].pc = "respond" /\ pr["c1"].via = "recompute" /\ pr["c1"].name = "d/padded"

\* The failures that come from what the tree has under the name, not from an
\* operation that broke: all but permission and I/O errors.
FailedOnShape == {r \in Failed : r.err \notin {ErrPermission, ErrIO}}

\* C31 as stated: a request or a Tag call for a name that is not there, that is
\* a directory, that goes away between the stat and the open, or that is found
\* to be a directory when its handle is stat'ed fails as Not-Found: the error is
\* fs.ErrNotExist, and the answer of ServeHTTP is 404, never 500.
AbsentOrDirectoryIsNotExist ==
  \A r \in FailedOnShape :
    /\ r.err = ErrNotExist
    /\ r.kind = "GET" => r.status = 404

\* What holds in its place: such a failure is fs.ErrNotExist and 404 unless the
\* name lies below a regular file, where both ServeHTTP and Tag get ENOTDIR from
\* the tree, and ServeHTTP answers 500; Tag and ServeHTTP fail alike on a name.
ShapeFailuresAlike ==
  \A r \in FailedOnShape :
    /\ r.err = MissingErr(OnDisk(r)) \/ r.err = ErrNotExist
    /\ r.err = ErrNotDir => NotDir(OnDisk(r))
    /\ r.kind = "GET" => r.status = (IF r.err = ErrNotExist THEN 404 ELSE 500)

\* Tag has found a.txt with its stat, and the open that follows finds it gone.
GoneBetweenStatAndOpen ==
  \E r \in Failed :
    r.kind = "Tag" /\ r.err = ErrNotExist /\ r.fsOps = 2 /\ r.opened = 0

\* The calls that have begun and not returned.
InCall == {c \in Clients : pr[c].pc # "idle"}

\* C32: every call of ServeHTTP and of Tag returns, whatever the other calls and
\* the writer do: none waits for another call but to take the lock, which its
\* holder releases at its next step; and while a call runs it has no outcome,
\* and when it has returned it has one.
EveryCallReturns ==
  /\ \A c \in Clients : (c \in InCall) ~> (c \notin InCall /\ resp[c].kind # "")
  /\ [](\A c \in InCall : resp[c] = NoResp)

\* A call waits for the exclusive lock while the other call holds the shared one.
WaitingForLock ==
  \E c, d \in Clients :
    /\ pr[c].pc = "lock" /\ d \in mu[pr[c].srv].readers
    /\ pr[d].pc \in {"runlock", "trunlock"}

\* C33: a holder changes only when a call that has read its file to the end and
\* rewound it stores the info it has read. A call whose reading or rewinding
\* fails returns the error, and the map and every holder are as before that
\* step: it has stored nothing. A call that loads a holder goes by what the
\* holder has and by its own stat alone, and reads the file when they differ,
\* whatever became of the calls before it.
FailedRecomputeStoresNothing ==
  [][/\ \A p \in DOMAIN holders :
          holders'[p] # holders[p] =>
            \E c \in Clients :
              /\ pr[c].pc = "store" /\ pr[c].p = p /\ pr[c].hashed > 0 /\ pr[c].f.pos = 0
              /\ holders'[p] = pr[c].info /\ pr'[c].stored
     /\ \A c \in Clients :
          pr[c].pc \in {"readInfo", "seek"} /\ pr'[c].pc = "idle" =>
            /\ resp'[c].err = ErrIO /\ ~resp'[c].stored
            /\ holders' = holders /\ cache' = cache
     /\ \A c \in Clients :
          pr[c].pc = "load" /\ pr'[c] # pr[c] =>
            pr'[c].pc = IF InfoMatches(pr[c].fi, holders[pr[c].p])
                        THEN (IF pr[c].ret = "serve" THEN "respond" ELSE "tagret")
                        ELSE "readInfo"]_vars

\* The reading of a newer a.txt, or the rewinding after it, has failed, and the
\* holder has the info of the older one still.
OlderInfoKeptOnFailure ==
  \E r \in Failed :
    /\ r.err = ErrIO /\ r.hashed = 1 /\ ~r.stored
    /\ r.name \in DOMAIN cache[cacheOf(r.srv)]
    /\ LET info == holders[cache[cacheOf(r.srv)][r.name]]
       IN  ~info.nil /\ info.mtime < files[OnDisk(r)].mtime

\* C34: the map of a Server gets a key only at the insertion under the exclusive
\* lock, by a call that has opened the name and found a file that is no
\* directory; the key is the name that was opened, without any tag, and the map
\* gets this one key. A call that ends with 405, with the 404 of the root, with
\* a failed open or with the rejection of a directory has added no key, and the
\* maps are as they were when its last step began.
KeyAddedAfterOpen ==
  [][/\ \A s \in Servers :
          cache'[s] # cache[s] =>
            \E c \in Clients :
              /\ pr[c].pc = "lock" /\ cacheOf(pr[c].srv) = s
              /\ pr[c].opened = 1 /\ pr[c].f.valid /\ ~pr[c].f.isDir
              /\ pr[c].f.name = OnDisk(pr[c])
              /\ pr[c].name \notin DOMAIN cache[s]
              /\ DOMAIN cache'[s] = DOMAIN cache[s] \cup {pr[c].name}
              /\ pr'[c].created
     /\ \A c \in Clients :
          LET r == resp'[c]
          IN  /\ pr[c].pc # "idle" /\ pr'[c].pc = "idle"
              /\ r.status = 405 \/ r.opened = 0 \/ r.err = ErrNotExist
              => ~r.created /\ cache' = cache /\ holders' = holders]_vars

\* A GET of a.js under its tag has added the key a.js, the only key of the map.
TaggedRequestAddsPlainKey ==
  \E r \in Responses :
    /\ r.tag # "" /\ r.created /\ r.status = 200
    /\ DOMAIN cache[cacheOf(r.srv)] = {r.name}

\* A GET of a name that is not there is answered 404 and the map, which has a
\* key of an earlier request, has none for this name.
MissingNameAddsNoKey ==
  \E r \in Responses :
    /\ r.status = 404 /\ r.opened = 0 /\ r.fsOps = 1
    /\ cache[cacheOf(r.srv)] # <<>>
    /\ r.name \notin DOMAIN cache[cacheOf(r.srv)]

\* The calls that have returned, of ServeHTTP and of Tag.
Returned == {r \in {resp[c] : c \in Clients} : r.kind # ""}

\* C35: a call opens one handle at most. While the call runs, the handle it has
\* opened is open; when the call has returned, the handle has been closed, once,
\* whatever the outcome: an error of Stat, a directory, an error of the reading
\* or the rewinding, a tag that does not match, a redirect, or the content.
HandleClosedOnce ==
  /\ \A c \in InCall :
       pr[c].closed = 0 /\ pr[c].opened = (IF pr[c].f.valid THEN 1 ELSE 0)
  /\ \A r \in Returned : r.opened \in {0, 1} /\ r.closed = r.opened

\* A GET under a tag the file does not have is answered 404 after the file was
\* opened, and its handle is closed.
ClosedOnTagMismatch ==
  \E r \in Returned :
    /\ r.kind = "GET" /\ r.tag # "" /\ r.status = 404 /\ r.err = NoErr
    /\ r.opened = 1 /\ r.closed = 1

\* C36: an answer of ServeHTTP has a Cache-Control and an ETag header when
\* http.ServeContent writes it (200, 206, 304), and has neither when ServeHTTP
\* or writeFSError writes it: 404, of a missing file and of a tag that does not
\* match, 405, 500, and the 308 of a trailing slash.
CachingHeadersOnContentOnly ==
  \A r \in Responses :
    /\ r.status \in Delegated \cup {308, 404, 405, 500}
    /\ IF r.status \in Delegated
       THEN r.hdr.CacheControl # Unset /\ r.hdr.ETag # Unset
       ELSE r.hdr.CacheControl = Unset /\ r.hdr.ETag = Unset

\* The redirect of a path with the current tag and a trailing slash: the info is
\* resolved and the tag matches, and the answer is not marked immutable.
RedirectOfCurrentTagUnmarked ==
  \E r \in Responses :
    /\ r.status = 308 /\ r.tag # "" /\ r.tag = r.info.tag /\ ~noCache
    /\ r.hdr.Location # Unset /\ r.hdr.CacheControl = Unset

\* C37: the path ServeHTTP cleans begins with a slash and so does the path
\* removeTag returns; the name passed to openWithInfo is the latter without this
\* slash. It does not begin with a slash and none of its elements is "." or
\* "..", however many such elements the request path has; when it is not empty,
\* none of its elements is empty either (fs.ValidPath).
NameStaysInRoot ==
  LET r == resp["c1"]
      elems == SplitSlash(r.name)
  IN  r.kind = "open" =>
        /\ HasPrefix(r.pth, "/") /\ r.pth = Clean(r.pth)
        /\ "/" \o r.name = removeTag(r.pth)[2]
        /\ r.tag = "" => "/" \o r.name = r.pth
        /\ ~HasPrefix(r.name, "/")
        /\ \A i \in 1..Len(elems) : elems[i] \notin {".", ".."}
        /\ r.name # "" => \A i \in 1..Len(elems) : elems[i] # ""

\* A path of more ".." than directories, and the name is a.js of the root.
DotDotsStopAtRoot ==
  /\ resp["c1"].kind = "open"
  /\ resp["c1"].req.url = "../../a.js"
  /\ resp["c1"].name = "a.js"

\* A name of a tag between dots: the path is clean, removeTag leaves ".." of the
\* name, and path.Join makes the root of it; the name passed is empty.
DotDotLeftByTag ==
  /\ resp["c1"].kind = "open"
  /\ resp["c1"].req.url = "/d/." \o AjsTag \o ".."
  /\ resp["c1"].tag = AjsTag
  /\ resp["c1"].name = ""

\* The writer has made its last replacement of a.txt.
Final == files["a.txt"].seq = WorldOf(world).writes

\* The file has stopped changing and no call is running.
Quiet == Final /\ InCall = {}

\* The holder of a.txt has an info with the size and the modification time of
\* the file as it is: the info of the file as it is, or, when a replacement
\* kept the modification time, that of another version with that time.
HolderCurrent ==
  /\ "a.txt" \in DOMAIN cache["s1"]
  /\ InfoMatches(PathStat("a.txt"), holders[cache["s1"]["a.txt"]])
  /\ InfoOfAVersion("a.txt", holders[cache["s1"]["a.txt"]])
  /\ TimeTellsVersion("a.txt") =>
       holders[cache["s1"]["a.txt"]].tag = TagsOfFile["a.txt"][files["a.txt"].seq].tag

\* The calls that have read the file, or are about to.
Recomputing == {c \in InCall : pr[c].hashed > 0 \/ pr[c].pc = "readInfo"}

\* C38 as stated: once the file has stopped changing and no call is running, one
\* call at most reads the file again.
OneRecomputeAfterQuiet == [](Quiet => [](Cardinality(Recomputing) <= 1))

\* What holds in its place: once the file has stopped changing and no call is
\* running, every call that has resolved the path leaves in the holder an info
\* with the size and the modification time of the file as it is, whatever the
\* holder had before; and once the holder has this info and no call is running,
\* no call reads the file or stores an info.
\* The calls that run together before the first of them has stored may all read
\* the file.
CacheSettlesAfterQuiet ==
  /\ [](Quiet =>
          [](\A c \in Clients : pr[c].pc \in {"respond", "tagret"} => HolderCurrent))
  /\ [](Quiet /\ HolderCurrent =>
          [](/\ HolderCurrent
             /\ \A c \in Clients : pr[c].hashed = 0 /\ ~pr[c].stored
             /\ \A c \in Clients : pr[c].pc \in {"respond", "tagret"} => pr[c].via = "cache"))

\* c1 has been served the last version before; c2, which had opened an older
\* version, has stored its info since and has returned; and the call of c1 that
\* came after has read the file again and stored the info of the file as it is.
StaleStoreOverwritten ==
  /\ Final /\ lastSeq["c1"] = files["a.txt"].seq
  /\ pr["c2"].pc = "idle" /\ resp["c2"].stored
  /\ resp["c2"].info.mtime < files["a.txt"].mtime
  /\ pr["c1"].pc \in {"respond", "tagret"} /\ pr["c1"].stored
  /\ HolderCurrent
=============================================================================
